---- MODULE Spec2Model ----
(***************************************************************************)
(* kuliso: pointer- and orientation-driven effect drivers.                 *)
(*                                                                         *)
(* The model covers the Pointer driver (src/src/Pointer.js, lines 1-261),  *)
(* its controller (src/src/controller.js, lines 269-444, and the build of  *)
(* the same function in src/docs/demo/index.js that passes the active      *)
(* flag), the Gyro driver (src/src/Kuliso.js, lines 284-451) with its      *)
(* controller (src/src/gyroController.js) and the shared utilities         *)
(* (src/src/utilities.js, lines 1-73).                                     *)
(*                                                                         *)
(* The browser is modelled by what the code uses of it: a registry of      *)
(* event listeners keyed by (target, type, capture), a FIFO queue of       *)
(* animation-frame callbacks with cancellable handles, a clock, the size   *)
(* of the root, the window scroll offset and the target's layout box.      *)
(***************************************************************************)
EXTENDS Integers, Sequences, FiniteSets, TLC

(***************************************************************************)
(* Numbers.  A JavaScript number is a pair <<n, d>>: the rational n/d in   *)
(* lowest terms with d > 0, or, with d = 0, NaN (<<0,0>>), +Infinity       *)
(* (<<1,0>>) or -Infinity (<<-1,0>>).  All values the model feeds to the   *)
(* code are small integers, halves or dyadic fractions, on which double    *)
(* arithmetic is exact; a quotient is rounded only by toPrecision.         *)
(***************************************************************************)
Abs(n) == IF n < 0 THEN -n ELSE n

Sign(n) == IF n < 0 THEN -1 ELSE IF n > 0 THEN 1 ELSE 0

RECURSIVE GCD(_, _)
GCD(a, b) == IF b = 0 THEN a ELSE GCD(b, a % b)

Rat(n, d) ==
    IF d = 0 THEN <<Sign(n), 0>>
    ELSE LET g == GCD(Abs(n), Abs(d))
             s == IF d < 0 THEN -1 ELSE 1
         IN  <<(s * n) \div g, (s * d) \div g>>

Num(n) == <<n, 1>>

NaN == <<0, 0>>

IsNaN(a) == a = NaN

IsFinite(a) == a[2] # 0

Add(a, b) == Rat(a[1] * b[2] + b[1] * a[2], a[2] * b[2])

Sub(a, b) == Rat(a[1] * b[2] - b[1] * a[2], a[2] * b[2])

Mul(a, b) == Rat(a[1] * b[1], a[2] * b[2])

\* a / b: x/0 is +-Infinity, 0/0 is NaN, and NaN propagates.
Div(a, b) ==
    IF IsNaN(a) \/ IsNaN(b) THEN NaN
    ELSE IF b[1] = 0 THEN <<Sign(a[1]), 0>>
    ELSE Rat(a[1] * b[2], a[2] * b[1])

\* a < b and a <= b; every comparison with NaN is false.
Lt(a, b) ==
    /\ ~IsNaN(a) /\ ~IsNaN(b)
    /\ IF IsFinite(a) /\ IsFinite(b) THEN a[1] * b[2] < b[1] * a[2]
       ELSE IF IsFinite(a) THEN b[1] = 1
       ELSE IF IsFinite(b) THEN a[1] = -1
       ELSE a[1] < b[1]

Le(a, b) == ~IsNaN(a) /\ ~IsNaN(b) /\ ~Lt(b, a)

\* Math.max and Math.min: NaN if either argument is NaN.
Max(a, b) == IF IsNaN(a) \/ IsNaN(b) THEN NaN ELSE IF Lt(a, b) THEN b ELSE a

Min(a, b) == IF IsNaN(a) \/ IsNaN(b) THEN NaN ELSE IF Lt(b, a) THEN b ELSE a

\* JavaScript truthiness of a number: 0 and NaN are falsy.
Truthy(a) == ~IsNaN(a) /\ a[1] # 0

RECURSIVE Pow10(_)
Pow10(k) == IF k = 0 THEN 1 ELSE 10 * Pow10(k - 1)

\* The least k >= 0 with n * 10^(k+1) >= d, for 0 < n/d: the number of zeros
\* between the decimal point and the first significant digit of n/d < 1.
RECURSIVE LeadingZeros(_, _, _)
LeadingZeros(n, d, k) ==
    IF n * Pow10(k + 1) >= d THEN k ELSE LeadingZeros(n, d, k + 1)

\* The significant digits progress is rounded to: the argument of toPrecision.
PRECISION == 4

\* +v.toPrecision(p) for NaN or 0 <= v <= 1: v rounded to p significant
\* digits, ties away from zero.
ToPrecision(v, p) ==
    IF IsNaN(v) \/ v[1] = 0 THEN v
    ELSE LET k == LeadingZeros(v[1], v[2], 0)
             scale == Pow10(k + p)
             m == (2 * v[1] * scale + v[2]) \div (2 * v[2])
         IN  Rat(m, scale)


(***************************************************************************)
(* State.                                                                  *)
(***************************************************************************)
VARIABLES
    config,              \* this.config without rect: the options, fixed at construction
    rect,                \* config.rect: the root size the controller divides by
    transforms,          \* scene.transform of each scene: the target box it captured, or <<>>
    effect,              \* this.effect: "null" or "controller"
    nextTick,            \* this._nextTick
    nextTransitionTick,  \* this._nextTransitionTick
    startTime,           \* this._startTime
    progress,            \* this.progress, the live snapshot
    previousProgress,    \* this.previousProgress
    currentProgress,     \* this.currentProgress: <<>> (null) or <<snapshot>>
    throttled,           \* frameThrottle's flag
    calibration,         \* Gyro: [samples, gammaZero, betaZero] of _measure's closure
    lastProgress,        \* controller's lastProgress: <<>> (null) or <<snapshot>>
    scrollPosition,      \* controller's scrollPosition
    resizeRegs,          \* resize observers / window resize handlers still registered
    scrollendRegs,       \* scrollend listeners still registered
    onscrollend,         \* 'onscrollend' in window
    timers,              \* the scrollend polyfill's closures with a timer pending or a
                         \* listener registered, oldest first
    polyfill,            \* the scrollend polyfill's shared state: the counter `listeners`,
                         \* the touch handler pairs installed, removeScrollendPolyfill of
                         \* the controller's closure and of the closures of other callers
    listeners,           \* input listeners: a set of <<target, type, capture>>
    frames,              \* pending requestAnimationFrame callbacks, oldest first
    now,                 \* performance.now()
    rootSize,            \* the root element's (or viewport's) actual size
    windowScroll,        \* window.scrollX, window.scrollY
    targetRect,          \* getRect(target) as the layout stands
    calls,               \* effect invocations made by the last operation, in order
    hookCalls,           \* scene destroy hooks invoked by the last operation, in order
    measured,            \* times the last operation ran the measuring handler
    sample,              \* the last operation's event: <<>>, <<point>> or <<angles>>
    unanswered,          \* measures since an effect pipeline was last ticked, up to MaxUnanswered
    prevUnanswered,      \* unanswered as the last operation found it
    error,               \* whether the last operation raised an error
    thrown,              \* the scene whose effect threw in the last operation, or 0
    lastOp,              \* the last operation
    phase,               \* lifecycle: "idle", "active", "paused", "destroyed"
    prevPhase,           \* the phase the last operation started in
    controllers,         \* controllers made by getController and not destroyed since
    notified             \* whether the last change of the root's size reached an observer

vars == <<config, rect, transforms, effect, nextTick, nextTransitionTick, startTime,
          progress, previousProgress, currentProgress, throttled, calibration,
          lastProgress, scrollPosition, resizeRegs, scrollendRegs, onscrollend, timers,
          polyfill, listeners, frames,
          now, rootSize, windowScroll, targetRect, calls, hookCalls, measured, sample,
          unanswered, prevUnanswered, error, thrown, lastOp, phase, prevPhase,
          controllers, notified>>

\* The state as one record, so that a handler is a function from state to state
\* and a call inside a handler is function application.
World ==
    [config |-> config, rect |-> rect, transforms |-> transforms, effect |-> effect,
     nextTick |-> nextTick, nextTransitionTick |-> nextTransitionTick,
     startTime |-> startTime, progress |-> progress,
     previousProgress |-> previousProgress, currentProgress |-> currentProgress,
     throttled |-> throttled, calibration |-> calibration,
     lastProgress |-> lastProgress, scrollPosition |-> scrollPosition,
     resizeRegs |-> resizeRegs, scrollendRegs |-> scrollendRegs,
     onscrollend |-> onscrollend, timers |-> timers, polyfill |-> polyfill,
     listeners |-> listeners, frames |-> frames, now |-> now, rootSize |-> rootSize,
     windowScroll |-> windowScroll, targetRect |-> targetRect, calls |-> calls,
     hookCalls |-> hookCalls, measured |-> measured, sample |-> sample,
     unanswered |-> unanswered, prevUnanswered |-> prevUnanswered, error |-> error,
     thrown |-> thrown,
     lastOp |-> lastOp, phase |-> phase, prevPhase |-> prevPhase,
     controllers |-> controllers, notified |-> notified]

Commit(w) ==
    /\ config' = w.config
    /\ rect' = w.rect
    /\ transforms' = w.transforms
    /\ effect' = w.effect
    /\ nextTick' = w.nextTick
    /\ nextTransitionTick' = w.nextTransitionTick
    /\ startTime' = w.startTime
    /\ progress' = w.progress
    /\ previousProgress' = w.previousProgress
    /\ currentProgress' = w.currentProgress
    /\ throttled' = w.throttled
    /\ calibration' = w.calibration
    /\ lastProgress' = w.lastProgress
    /\ scrollPosition' = w.scrollPosition
    /\ resizeRegs' = w.resizeRegs
    /\ scrollendRegs' = w.scrollendRegs
    /\ onscrollend' = w.onscrollend
    /\ timers' = w.timers
    /\ polyfill' = w.polyfill
    /\ listeners' = w.listeners
    /\ frames' = w.frames
    /\ now' = w.now
    /\ rootSize' = w.rootSize
    /\ windowScroll' = w.windowScroll
    /\ targetRect' = w.targetRect
    /\ calls' = w.calls
    /\ hookCalls' = w.hookCalls
    /\ measured' = w.measured
    /\ sample' = w.sample
    /\ unanswered' = w.unanswered
    /\ prevUnanswered' = w.prevUnanswered
    /\ error' = w.error
    /\ thrown' = w.thrown
    /\ lastOp' = w.lastOp
    /\ phase' = w.phase
    /\ prevPhase' = w.prevPhase
    /\ controllers' = w.controllers
    /\ notified' = w.notified

\* The state an operation starts from: the observations of the previous one cleared.
Begin(op) ==
    [World EXCEPT !.calls = <<>>, !.hookCalls = <<>>, !.measured = 0, !.sample = <<>>,
                  !.prevUnanswered = unanswered,
                  !.error = FALSE, !.thrown = 0, !.lastOp = op, !.prevPhase = phase]

NScenes(w) == Len(w.config.scenes)

\* this.effect = <value>, not reached when the call before it raised an error.
effectAssigned(w, value) == IF w.error THEN w ELSE [w EXCEPT !.effect = value]

(***************************************************************************)
(* requestAnimationFrame / cancelAnimationFrame.  A handle is null,        *)
(* undefined, the id of a callback still pending (its place in the queue)  *)
(* or the id of one that ran or was cancelled.  Ids are never reused, so a *)
(* stale id cancels nothing.                                               *)
(***************************************************************************)
HNull == [tag |-> "null", at |-> 0]

HUndefined == [tag |-> "undefined", at |-> 0]

HStale == [tag |-> "stale", at |-> 0]

HPending(i) == [tag |-> "pending", at |-> i]

\* `h && ...`: null and undefined are falsy, every id is truthy.
HTruthy(h) == h.tag \in {"stale", "pending"}

RemoveAt(s, i) == [j \in 1..(Len(s) - 1) |-> IF j < i THEN s[j] ELSE s[j + 1]]

\* A handle after the callback at place i left the queue.
Shift(h, i) ==
    IF h.tag # "pending" THEN h
    ELSE IF h.at = i THEN HStale
    ELSE IF h.at > i THEN HPending(h.at - 1)
    ELSE h

Unqueue(w, i) ==
    [w EXCEPT !.frames = RemoveAt(w.frames, i),
              !.nextTick = Shift(w.nextTick, i),
              !.nextTransitionTick = Shift(w.nextTransitionTick, i)]

requestAnimationFrame(w, callback) == [w EXCEPT !.frames = Append(w.frames, callback)]

\* The handle requestAnimationFrame(w, _) returned.
Requested(w) == HPending(Len(w.frames) + 1)

cancelAnimationFrame(w, h) == IF h.tag = "pending" THEN Unqueue(w, h.at) ELSE w

\* The callbacks: the throttled trigger's, the transition loop's (with its
\* closure's resetMovement) and the scroll-settled re-dispatch (with the
\* lastProgress object bound to it once its controller is destroyed).
ThrottleFrame == [kind |-> "throttle", resetMovement |-> FALSE, bound |-> <<>>]

LoopFrame(resetMovement) == [kind |-> "loop", resetMovement |-> resetMovement, bound |-> <<>>]

ScrollFrame == [kind |-> "scroll", resetMovement |-> FALSE, bound |-> <<>>]


(***************************************************************************)
(* Snapshots.  A snapshot is {x, y, vx, vy} with an optional active flag:  *)
(* "absent" when the key is not set, else "true" or "false".               *)
(***************************************************************************)
Snapshot(x, y, vx, vy, active) == [x |-> x, y |-> y, vx |-> vx, vy |-> vy, active |-> active]

\* Object.assign(target, source) on snapshots: an absent key is not copied.
Assign(target, source) ==
    [source EXCEPT !.active = IF source.active = "absent" THEN target.active ELSE @]

\* The object a tick was handed: the live snapshot, the interpolated one, the
\* controller's lastProgress, or the lastProgress object a re-dispatch kept.
Object(w, ref) ==
    CASE ref.of = "progress" -> w.progress
      [] ref.of = "currentProgress" -> w.currentProgress[1]
      [] ref.of = "lastProgress" -> w.lastProgress[1]
      [] OTHER -> ref.bound

SetActive(w, ref, flag) ==
    CASE ref.of = "progress" -> [w EXCEPT !.progress.active = flag]
      [] ref.of = "currentProgress" -> [w EXCEPT !.currentProgress[1].active = flag]
      [] ref.of = "lastProgress" ->
            IF w.lastProgress = <<>> THEN w ELSE [w EXCEPT !.lastProgress[1].active = flag]
      [] OTHER -> w

Ref(of) == [of |-> of, bound |-> Snapshot(Num(0), Num(0), Num(0), Num(0), "absent")]

Bound(snapshot) == [of |-> "bound", bound |-> snapshot]

(***************************************************************************)
(* utilities.js                                                            *)
(***************************************************************************)
clamp(min, max, value) == Min(Max(min, value), max)

(***************************************************************************)
(* controller.js                                                           *)
(***************************************************************************)
\* centerToTargetFactory(target, root, scrollPosition).x(x1) and .y(y1), one
\* operator per local of the source, each taking the locals computed before it.
\* `start` and `size` are the target's left and width (top and height),
\* `rootDim` the root's width (height), `scroll` the scroll offset on that axis.
\* return (x1 - x0) / duration
centerToTarget_x0(x0, duration, x1) == Div(Sub(x1, x0), duration)

\* x0 = isStartFarthest ? 0 : layerCenter - duration / 2
centerToTarget_duration(layerCenter, isStartFarthest, duration, x1) ==
    centerToTarget_x0(
        IF isStartFarthest THEN Num(0) ELSE Sub(layerCenter, Div(duration, Num(2))),
        duration, x1)

\* duration = (isStartFarthest ? layerCenter : rootDim - layerCenter) * 2
centerToTarget_isStartFarthest(layerCenter, isStartFarthest, rootDim, x1) ==
    centerToTarget_duration(
        layerCenter, isStartFarthest,
        Mul(IF isStartFarthest THEN layerCenter ELSE Sub(rootDim, layerCenter), Num(2)),
        x1)

\* isStartFarthest = layerCenter >= rootDim / 2
centerToTarget_layerCenter(layerCenter, rootDim, x1) ==
    centerToTarget_isStartFarthest(layerCenter, Le(Div(rootDim, Num(2)), layerCenter),
                                   rootDim, x1)

\* A factory that centers on the target's near corner: start - scroll.
centerToTargetFactory_corner(start, size, rootDim, scroll, x1) ==
    centerToTarget_layerCenter(Sub(start, scroll), rootDim, x1)

\* layerCenter = start - scroll + size / 2
centerToTargetFactory(start, size, rootDim, scroll, x1) ==
    centerToTarget_layerCenter(Add(Sub(start, scroll), Div(size, Num(2))), rootDim, x1)

\* a || b on numbers.
Or(a, b) == IF Truthy(a) THEN a ELSE b

\* scene.transform?.x(progress.x) || progress.x / config.rect.width (and for y).
\* The x axis normalized by the root's height.
normalizedX_byHeight(w, i, p) ==
    IF w.transforms[i] = <<>> THEN Div(p.x, w.rect.height)
    ELSE Or(centerToTargetFactory(w.transforms[i][1].left, w.transforms[i][1].width,
                                  w.rect.width, w.scrollPosition.x, p.x),
            Div(p.x, w.rect.height))

normalizedX(w, i, p) ==
    IF w.transforms[i] = <<>> THEN Div(p.x, w.rect.width)
    ELSE Or(centerToTargetFactory(w.transforms[i][1].left, w.transforms[i][1].width,
                                  w.rect.width, w.scrollPosition.x, p.x),
            Div(p.x, w.rect.width))

normalizedY(w, i, p) ==
    IF w.transforms[i] = <<>> THEN Div(p.y, w.rect.height)
    ELSE Or(centerToTargetFactory(w.transforms[i][1].top, w.transforms[i][1].height,
                                  w.rect.height, w.scrollPosition.y, p.y),
            Div(p.y, w.rect.height))

\* +clamp(0, 1, normalized).toPrecision(4)
sceneProgress(normalized) == ToPrecision(clamp(Num(0), Num(1), normalized), PRECISION)

\* scrollend.js.  One closure of addScrollendListener's polyfill: whether its
\* debounce timer (`timeout`) is pending, whether a setTimeout(scrollListener, 100)
\* is pending, and the lastProgress object its listener is bound to once the
\* controller that registered it is destroyed.
Timer(debounce, retry, bound) == [debounce |-> debounce, retry |-> retry, bound |-> bound]

TimerPending(timer) == timer.debounce \/ timer.retry

\* The touchstart/touchend handler pair initScrollendPolyfill() makes: functions
\* of its own, named here by a number no installed pair has.
touchHandlers(p) == CHOOSE id \in 1..(Cardinality(p.handlers) + 1): id \notin p.handlers

\* removeScrollendPolyfill of a closure made by addScrollendListener: the function
\* that removes the pair initScrollendPolyfill() installed, <<id>>, or, when the
\* counter was not 0, undefined, <<>>.
removeScrollendPolyfill(p) == IF p.listeners = 0 THEN <<touchHandlers(p)>> ELSE <<>>

\* if (!listeners) { removeScrollendPolyfill = initScrollendPolyfill() }; listeners += 1
polyfill_add(p) ==
    [p EXCEPT !.listeners = @ + 1,
              !.handlers = IF p.listeners = 0 THEN @ \cup {touchHandlers(p)} ELSE @]

\* listeners -= 1; if (!listeners) { removeScrollendPolyfill() } with the closure's
\* own removeScrollendPolyfill.
polyfill_remove(p, remove) ==
    [p EXCEPT !.listeners = @ - 1,
              !.handlers = IF p.listeners = 1 /\ remove # <<>> THEN @ \ {remove[1]} ELSE @]

\* Calling an undefined removeScrollendPolyfill is a TypeError.
polyfill_fails(p, remove) == p.listeners = 1 /\ remove = <<>>

\* addScrollendListener(document, scrollendHandler): the native event, or the
\* polyfill's scroll listener with a closure of its own.
addScrollendListener(w) ==
    IF w.onscrollend THEN [w EXCEPT !.scrollendRegs = @ + 1]
    ELSE [w EXCEPT !.scrollendRegs = @ + 1, !.timers = Append(@, Timer(FALSE, FALSE, <<>>)),
                   !.polyfill = [polyfill_add(@) EXCEPT !.removeScrollendPolyfill =
                                                            removeScrollendPolyfill(w.polyfill)]]

\* The function addScrollendListener returned: the listener is removed, the
\* timers already set are left pending; with the polyfill the counter is lowered
\* and at 0 the closure's removeScrollendPolyfill is called.
removeScrollendListener(w, kept) ==
    [w EXCEPT !.scrollendRegs = IF @ > 0 THEN @ - 1 ELSE 0,
              !.timers = SelectSeq([j \in 1..Len(@) |->
                                      IF @[j].bound = <<>> THEN [@[j] EXCEPT !.bound = kept]
                                      ELSE @[j]],
                                   TimerPending),
              !.polyfill = IF w.onscrollend THEN @
                           ELSE polyfill_remove(@, @.removeScrollendPolyfill),
              !.error = ~w.onscrollend
                        /\ polyfill_fails(w.polyfill, w.polyfill.removeScrollendPolyfill)]

\* scrollListener(evt): clearTimeout(timeout); timeout = setTimeout(.., 100)
scrollListener(w, i) == [w EXCEPT !.timers[i].debounce = TRUE]

\* The rest of getController's destroy, not reached when removeScrollendListener()
\* raised an error.
controller_destroyed(w, kept) ==
    IF w.error THEN w ELSE
    [w EXCEPT
        \* the one observer or handler the closure still names
        !.resizeRegs = IF NScenes(w) > 0 /\ @ > 0 THEN @ - 1 ELSE @,
        \* a pending re-dispatch keeps the tick and the lastProgress object it was bound to
        !.frames = [j \in 1..Len(w.frames) |->
                      IF w.frames[j].kind = "scroll" /\ w.frames[j].bound = <<>>
                      THEN [w.frames[j] EXCEPT !.bound = kept]
                      ELSE w.frames[j]],
        !.lastProgress = <<>>,
        !.controllers = @ - 1]

\* getController's destroy.
controller_destroy(w) ==
    LET hooks == SelectSeq([i \in 1..NScenes(w) |-> i],
                           LAMBDA i: w.config.scenes[i].hasDestroy)
        kept == IF w.lastProgress = <<>> THEN <<>> ELSE <<w.lastProgress[1]>>
    IN  controller_destroyed(
            [(IF \E i \in 1..NScenes(w): w.config.scenes[i].centered
              THEN removeScrollendListener(w, kept) ELSE w) EXCEPT
                !.hookCalls = w.hookCalls \o hooks],
            kept)

\* getController: the scenes are prepared, the observers registered;
\* config.scenes.forEach of a missing `scenes` is a TypeError.
getController(w) ==
    LET centered(i) == w.config.scenes[i].centered
    IN  IF ~w.config.hasScenes THEN [w EXCEPT !.error = TRUE] ELSE
        [(IF \E i \in 1..NScenes(w): centered(i) THEN addScrollendListener(w) ELSE w) EXCEPT
            !.lastProgress = <<Snapshot(Div(w.rect.width, Num(2)), Div(w.rect.height, Num(2)),
                                        Num(0), Num(0), "absent")>>,
            !.scrollPosition = [x |-> Num(0), y |-> Num(0)],
            !.transforms = [i \in 1..NScenes(w) |->
                              IF centered(i) THEN <<w.targetRect>> ELSE w.transforms[i]],
            !.resizeRegs = @ + NScenes(w),
            !.controllers = @ + 1]


(***************************************************************************)
(* Pointer.js: listeners and teardown.  `element` is config.root || window *)
(* and is called "root" in the registry; config.eventSource is "source".   *)
(* addEventListener(.., {passive: true}) registers a non-capture listener; *)
(* removeEventListener removes the listener of the same type and capture.  *)
(***************************************************************************)
addEventListener(w, target, type) ==
    [w EXCEPT !.listeners = @ \cup {<<target, type, FALSE>>}]

removeEventListener(w, target, type, capture) ==
    [w EXCEPT !.listeners = @ \ {<<target, type, capture>>}]

\* if (condition) target.removeEventListener(type, .., {capture})
removeEventListenerIf(condition, w, target, type, capture) ==
    IF condition THEN removeEventListener(w, target, type, capture) ELSE w

\* if (condition) target.addEventListener(type, .., {passive: true})
addEventListenerIf(condition, w, target, type) ==
    IF condition THEN addEventListener(w, target, type) ELSE w

\* removeEvent(): the removals in the order of the source, the first innermost.
Pointer_removeEvent(w) ==
    removeEventListenerIf(w.config.allowActiveEvent /\ w.config.eventSource,
      removeEventListenerIf(w.config.allowActiveEvent /\ w.config.eventSource,
        removeEventListenerIf(w.config.allowActiveEvent,
          removeEventListenerIf(w.config.allowActiveEvent,
            removeEventListenerIf(w.config.eventSource,
              removeEventListener(w, "root", "pointermove", FALSE),
              "source", "pointermove", TRUE),
            "root", "pointerleave", FALSE),
          "root", "pointerenter", FALSE),
        "source", "pointerleave", FALSE),
      "source", "pointerenter", FALSE)

\* setupEvent(): removeEvent(), then the registrations in the order of the source.
Pointer_setupEvent(w) ==
    addEventListenerIf(w.config.allowActiveEvent /\ w.config.eventSource,
      addEventListenerIf(w.config.allowActiveEvent /\ w.config.eventSource,
        addEventListenerIf(w.config.allowActiveEvent,
          addEventListenerIf(w.config.allowActiveEvent,
            addEventListenerIf(w.config.eventSource,
              addEventListener(Pointer_removeEvent(w), "root", "pointermove"),
              "source", "pointermove"),
            "root", "pointerleave"),
          "root", "pointerenter"),
        "source", "pointerleave"),
      "source", "pointerenter")

\* A pause that also drops the pending animation frames.
Pointer_pause_cancelling(w) == [Pointer_removeEvent(w) EXCEPT !.frames = <<>>]

Pointer_pause(w) == Pointer_removeEvent(w)

\* removeEffect() without its guard: this.effect.destroy() on a null effect.
Pointer_removeEffect_unguarded(w) ==
    IF w.effect = "null" THEN [w EXCEPT !.error = TRUE]
    ELSE [controller_destroy(w) EXCEPT !.effect = "null"]

Pointer_removeEffect(w) ==
    effectAssigned(IF w.effect # "null" THEN controller_destroy(w) ELSE w, "null")

\* this._nextTick && cancelAnimationFrame(this._nextTick)
cancelNextTick(w) ==
    IF HTruthy(w.nextTick) THEN cancelAnimationFrame(w, w.nextTick) ELSE w

\* A transition cycle that leaves the frame of the cycle before it pending.
cancelNextTransitionTick_skipped(w) == w

\* this._nextTransitionTick && cancelAnimationFrame(this._nextTransitionTick)
cancelNextTransitionTick(w) ==
    IF HTruthy(w.nextTransitionTick) THEN cancelAnimationFrame(w, w.nextTransitionTick)
    ELSE w

\* The rest of destroy(), not reached when removeEffect() raised an error.
Pointer_destroyed(w) ==
    IF w.error THEN w ELSE cancelNextTransitionTick(cancelNextTick(w))

Pointer_destroy(w) ==
    [Pointer_destroyed(Pointer_removeEffect(Pointer_pause(w))) EXCEPT !.phase = "destroyed"]

(***************************************************************************)
(* gyroController.js and the Gyro class of Kuliso.js: teardown.            *)
(***************************************************************************)
\* A destroy that skips config.scenes.forEach(scene => scene.destroy?.()).
gyroController_destroy_silent(w) == [w EXCEPT !.controllers = @ - 1]

\* config.scenes.forEach of a missing `scenes` is a TypeError.
gyroController_destroy(w) ==
    IF ~w.config.hasScenes THEN [w EXCEPT !.error = TRUE] ELSE
    [w EXCEPT !.hookCalls = @ \o SelectSeq([i \in 1..NScenes(w) |-> i],
                                           LAMBDA i: w.config.scenes[i].hasDestroy),
              !.controllers = @ - 1]

\* gyroController's getController: nothing is registered, nothing prepared.
gyroController_getController(w) == [w EXCEPT !.controllers = @ + 1]

Gyro_removeEvent(w) == removeEventListener(w, "window", "deviceorientation", FALSE)

Gyro_setupEvent(w) == addEventListener(Gyro_removeEvent(w), "window", "deviceorientation")

Gyro_pause(w) == Gyro_removeEvent(w)

Gyro_removeEffect(w) ==
    effectAssigned(IF w.effect # "null" THEN gyroController_destroy(w) ELSE w, "null")

\* The rest of destroy(), not reached when removeEffect() raised an error.
Gyro_destroyed(w) == IF w.error THEN w ELSE cancelNextTick(w)

Gyro_destroy(w) ==
    [Gyro_destroyed(Gyro_removeEffect(Gyro_pause(w))) EXCEPT !.phase = "destroyed"]

(***************************************************************************)
(* utilities.js: the frame throttle, and the handle the drivers keep.      *)
(***************************************************************************)
\* The measures counted as not yet answered by a tick: this many, or more.
MaxUnanswered == 2

\* A throttle that requests a frame at every call.
frameThrottle_unthrottled(w) ==
    [ret |-> Requested(w), w |-> [requestAnimationFrame(w, ThrottleFrame) EXCEPT !.throttled = TRUE]]

\* frameThrottle(fn)(): arms one frame unless one is armed, returns its id or undefined.
frameThrottle(w) ==
    IF ~w.throttled
    THEN [ret |-> Requested(w),
          w |-> [requestAnimationFrame(w, ThrottleFrame) EXCEPT !.throttled = TRUE]]
    ELSE [ret |-> HUndefined, w |-> w]

\* this._nextTick = <returned>; an error raised by trigger() skips the assignment.
assignNextTick(r) == IF r.w.error THEN r.w ELSE [r.w EXCEPT !.nextTick = r.ret]

(***************************************************************************)
(* Effects are the caller's code.  What an effect does besides observing   *)
(* its arguments is an input of the operation that dispatches it:          *)
(* behaviour.destroyAt = i makes the effect of scene i call destroy() on   *)
(* its driver (0: no effect does), behaviour.throwAt = i makes it throw,   *)
(* behaviour.triggerAt = i makes it dispatch a pointermove on the element  *)
(* its throttled pointer driver listens on, at the pointer's position.     *)
(***************************************************************************)
Behaviours(n) == [destroyAt : 0..n, throwAt : {0}, triggerAt : {0}]

Throwing(n) == [destroyAt : {0}, throwAt : 0..n, triggerAt : {0}]

Triggering(n) == [destroyAt : {0}, throwAt : 0..n, triggerAt : 0..n]

Quiet == [destroyAt |-> 0, throwAt |-> 0, triggerAt |-> 0]

\* The effect of scene i dispatches a pointermove at the pointer's position: the
\* listener, if attached, runs _measure, which calls the throttled trigger.
effect_measure(w, i, behaviour) ==
    IF /\ behaviour.triggerAt = i
       /\ w.config.kind = "pointer" /\ ~w.config.noThrottle
       /\ <<"root", "pointermove", FALSE>> \in w.listeners
    THEN assignNextTick(frameThrottle(
             [w EXCEPT !.measured = @ + 1,
                       !.unanswered = IF @ < MaxUnanswered THEN @ + 1 ELSE @,
                       !.progress.vx = Num(0),
                       !.progress.vy = Num(0)]))
    ELSE w

\* The effect of scene i then throws, calls destroy(), or returns.
effect_outcome(w, i, behaviour) ==
    IF behaviour.throwAt = i THEN [w EXCEPT !.error = TRUE, !.thrown = i]
    ELSE IF behaviour.destroyAt # i THEN w
    ELSE IF w.config.kind = "gyro" THEN Gyro_destroy(w)
    ELSE Pointer_destroy(w)

runEffect(w, i, behaviour) == effect_outcome(effect_measure(w, i, behaviour), i, behaviour)

\* One invocation of scene i's effect: the progress {x, y}, the velocity and the
\* active argument it received, the x, the y and the active flag of the object
\* tick was handed, as they were when the loop reached scene i, and the phase
\* the driver was in when the effect was called.
Call(i, x, y, p, active, during) ==
    [scene |-> i, x |-> x, y |-> y, vx |-> p.vx, vy |-> p.vy, active |-> active,
     rawX |-> p.x, rawY |-> p.y, rawActive |-> p.active, phase |-> during]

Flag(b) == IF b THEN "true" ELSE "false"

RECURSIVE controller_scenes(_, _, _, _)

\* A loop that goes on to the next scene after an effect threw.
scene_next_caught(w, ref, object, behaviour, i) ==
    controller_scenes(w,
                      IF ref.of = "lastProgress" /\ w.lastProgress = <<>>
                      THEN Bound(object) ELSE ref,
                      behaviour, i + 1)

\* The rest of the loop after scene i's effect returned, none when it threw; the
\* object handed to tick outlives the closure's lastProgress = null.
scene_next(w, ref, object, behaviour, i) ==
    IF w.error THEN w
    ELSE controller_scenes(w,
                           IF ref.of = "lastProgress" /\ w.lastProgress = <<>>
                           THEN Bound(object) ELSE ref,
                           behaviour, i + 1)

\* scene.effect(scene, {x, y}, velocity, active) with the object's active flag;
\* calling a missing `effect` is a TypeError.
scene_effect(w, ref, behaviour, i, p, nX, nY, active) ==
    IF ~w.config.scenes[i].hasEffect THEN [w EXCEPT !.error = TRUE] ELSE
    scene_next(runEffect([w EXCEPT !.calls = Append(@, Call(i, sceneProgress(nX),
                                                            sceneProgress(nY), p, active,
                                                            w.phase))],
                         i, behaviour),
               ref, [p EXCEPT !.active = active], behaviour, i)

\* if (config.allowActiveEvent) progress.active = <inside the unit square>
scene_active(w, ref, behaviour, i, p, nX, nY, inside) ==
    IF w.config.allowActiveEvent
    THEN scene_effect(SetActive(w, ref, Flag(inside)), ref, behaviour, i, p, nX, nY,
                      Flag(inside))
    ELSE scene_effect(w, ref, behaviour, i, p, nX, nY, p.active)

\* The body of the loop for an enabled scene, given the normalized x and y.
scene_normalized(w, ref, behaviour, i, p, nX, nY) ==
    scene_active(w, ref, behaviour, i, p, nX, nY,
                 Le(nX, Num(1)) /\ Le(nY, Num(1)) /\ Le(Num(0), nX) /\ Le(Num(0), nY))

scene_body(w, ref, behaviour, i, p) ==
    scene_normalized(w, ref, behaviour, i, p, normalizedX(w, i, p), normalizedY(w, i, p))

\* A loop that does not look at scene.disabled.
controller_scenes_all(w, ref, behaviour, i) ==
    IF i > NScenes(w) THEN w
    ELSE scene_body(w, ref, behaviour, i, Object(w, ref))

\* The loop of getController's tick from scene i on.
controller_scenes(w, ref, behaviour, i) ==
    IF i > NScenes(w) THEN w
    ELSE IF w.config.scenes[i].disabled THEN controller_scenes(w, ref, behaviour, i + 1)
    ELSE scene_body(w, ref, behaviour, i, Object(w, ref))

\* Object.assign(lastProgress, progress), not reached when an effect threw;
\* Object.assign(null, ..) is a TypeError.
controller_assign(w, ref) ==
    IF w.error THEN w
    ELSE IF w.lastProgress = <<>> THEN [w EXCEPT !.error = TRUE]
    ELSE [w EXCEPT !.lastProgress[1] = Assign(@, Object(w, ref))]

\* getController's tick(progress).
controller_tick(w, ref, behaviour) ==
    controller_assign(controller_scenes(w, ref, behaviour, 1), ref)

\* gyroController's tick(progress): the snapshot itself is the progress argument.
RECURSIVE gyroController_tick(_, _, _)
gyroController_tick(w, behaviour, i) ==
    IF ~w.config.hasScenes THEN [w EXCEPT !.error = TRUE]
    ELSE IF i > NScenes(w) \/ w.error THEN w
    ELSE IF w.config.scenes[i].disabled THEN gyroController_tick(w, behaviour, i + 1)
    ELSE IF ~w.config.scenes[i].hasEffect THEN [w EXCEPT !.error = TRUE]
    ELSE gyroController_tick(
             runEffect([w EXCEPT !.calls = Append(@, Call(i, w.progress.x, w.progress.y,
                                                          w.progress, "absent", w.phase))],
                       i, behaviour),
             behaviour, i + 1)


(***************************************************************************)
(* Pointer.js: start, tick, transition, the trigger and the handlers.      *)
(* Time is counted in frames of 60 Hz (1e3 / 60 ms).                       *)
(***************************************************************************)
\* 1e3 / 60 * 3 ms, that is 3 frames
MOVEMENT_RESET_DELAY == 3

\* getController(this.config), not reached when removeEffect() raised an error.
Pointer_wired(w) == IF w.error THEN w ELSE getController(w)

Pointer_setupEffect(w) == effectAssigned(Pointer_wired(Pointer_removeEffect(w)), "controller")

\* this.setupEvent(), not reached when setupEffect() raised an error.
started(w) ==
    IF w.error THEN w
    ELSE [(IF w.config.kind = "gyro" THEN Gyro_setupEvent(w) ELSE Pointer_setupEvent(w))
             EXCEPT !.phase = "active"]

Pointer_start(w) == started(Pointer_setupEffect(w))

\* this.effect?.tick(snapshot): without an effect nothing happens.
effect_tick_optional(w, ref, behaviour) ==
    IF w.effect = "null" THEN w
    ELSE controller_tick([w EXCEPT !.unanswered = 0], ref, behaviour)

\* this.effect.tick(snapshot); a null effect is a TypeError.  The tick answers
\* the measures made so far.
effect_tick(w, ref, behaviour) ==
    IF w.effect = "null" THEN [w EXCEPT !.error = TRUE]
    ELSE controller_tick([w EXCEPT !.unanswered = 0], ref, behaviour)

Pointer_tick(w, behaviour) == effect_tick(w, Ref("progress"), behaviour)

\* The default easing.
easing(p) == p

\* An entry that takes the live value as it is.
Interpolated_live(previous, value, t) == value

\* previousProgress[key] + (value - previousProgress[key]) * t
Interpolated(previous, value, t) == Add(previous, Mul(Sub(value, previous), t))

\* if (resetMovement) { this.progress.vx = 0; this.progress.vy = 0; .. }
tick_resetMovement(w, resetMovement) ==
    IF resetMovement THEN [w EXCEPT !.progress.vx = Num(0), !.progress.vy = Num(0)] ELSE w

\* this.currentProgress = Object.entries(this.progress).reduce(.., this.currentProgress || {})
tick_currentProgress(w, t) ==
    [w EXCEPT !.currentProgress =
        <<Snapshot(Interpolated(w.previousProgress.x, w.progress.x, t),
                   Interpolated(w.previousProgress.y, w.progress.y, t),
                   Interpolated(w.previousProgress.vx, w.progress.vx, t),
                   Interpolated(w.previousProgress.vy, w.progress.vy, t),
                   IF w.progress.active # "absent" THEN w.progress.active
                   ELSE IF w.currentProgress = <<>> THEN "absent"
                   ELSE w.currentProgress[1].active)>>]

\* A step that requests the next frame whatever p is.
tick_request_always(w, p, elapsed) ==
    [requestAnimationFrame(w, LoopFrame(elapsed > MOVEMENT_RESET_DELAY))
        EXCEPT !.nextTransitionTick = Requested(w)]

\* if (p < 1) { this._nextTransitionTick = requestAnimationFrame(tick); resetMovement = .. }
tick_request(w, p, elapsed) ==
    IF Lt(p, Num(1))
    THEN [requestAnimationFrame(w, LoopFrame(elapsed > MOVEMENT_RESET_DELAY))
            EXCEPT !.nextTransitionTick = Requested(w)]
    ELSE w

\* The body of the closure `tick` once p = (time - this._startTime) / duration is known.
tick_p(w, elapsed, p, resetMovement, behaviour) ==
    effect_tick(tick_request(tick_currentProgress(tick_resetMovement(w, resetMovement),
                                                  easing(Min(Num(1), p))),
                             p, elapsed),
                Ref("currentProgress"), behaviour)

\* The closure `tick` of transition(), run at `time` with the closure's resetMovement.
transition_tick(w, time, resetMovement, behaviour) ==
    tick_p(w, time - w.startTime,
           Div(Num(time - w.startTime), Num(w.config.transitionDuration)),
           resetMovement, behaviour)

\* A re-trigger that keeps the previous snapshot of the transition it interrupts.
transition_previousProgress_kept(w) == w

\* Object.assign(this.previousProgress, this.currentProgress); a null source copies nothing.
transition_previousProgress(w) ==
    IF w.currentProgress = <<>> THEN w
    ELSE [w EXCEPT !.previousProgress = Assign(@, w.currentProgress[1])]

\* transition(): the state it leaves; it returns this._nextTransitionTick.
transition(w, behaviour) ==
    IF w.startTime # 0
    THEN transition_tick(
             [transition_previousProgress(cancelNextTransitionTick(w))
                 EXCEPT !.startTime = w.now],
             w.now, FALSE, behaviour)
    ELSE [w EXCEPT !.startTime = w.now]

\* () => this.transition(): the id transition() returns and the state it leaves.
transition_returned(w) == [ret |-> w.nextTransitionTick, w |-> w]

\* A trigger that throttles whatever noThrottle says.
trigger_throttled(w, behaviour) == frameThrottle(w)

\* The constructor's trigger(): what it returns and the state it leaves.
trigger(w, behaviour) ==
    IF w.config.noThrottle
    THEN IF w.config.transitionDuration # 0
         THEN transition_returned(transition(w, behaviour))
         ELSE [ret |-> HNull, w |-> Pointer_tick(w, behaviour)]
    ELSE frameThrottle(w)

\* this._nextTick = trigger()
armTick(w, behaviour) == assignNextTick(trigger(w, behaviour))

\* A _measure that overwrites the coordinates before it takes the difference.
measure_overwritten(w, point, behaviour) ==
    armTick([w EXCEPT !.measured = @ + 1,
                      !.unanswered = IF @ < MaxUnanswered THEN @ + 1 ELSE @,
                      !.progress.vx = Num(0),
                      !.progress.vy = Num(0),
                      !.progress.x = point.x,
                      !.progress.y = point.y],
            behaviour)

\* The constructor's _measure(event) with the event's coordinates.
measure(w, point, behaviour) ==
    armTick([w EXCEPT !.measured = @ + 1,
                      !.unanswered = IF @ < MaxUnanswered THEN @ + 1 ELSE @,
                      !.progress.vx = Sub(point.x, w.progress.x),
                      !.progress.vy = Sub(point.y, w.progress.y),
                      !.progress.x = point.x,
                      !.progress.y = point.y],
            behaviour)

\* this._measure(e) for an event whose target is `target`: with a root, an event
\* from elsewhere is re-dispatched on the root, whose listeners then run.
Pointer_measure(w, target, point, behaviour) ==
    IF w.config.root /\ target # "root" /\ <<"root", "pointermove", FALSE>> \notin w.listeners
    THEN w
    ELSE measure(w, point, behaviour)

pointerLeave(w, behaviour) ==
    armTick([w EXCEPT !.progress.active = "false",
                      !.progress.vx = Num(0), !.progress.vy = Num(0)], behaviour)

pointerEnter(w, behaviour) == armTick([w EXCEPT !.progress.active = "true"], behaviour)

(***************************************************************************)
(* Kuliso.js, class Gyro.                                                  *)
(***************************************************************************)
\* getController(this.config), not reached when removeEffect() raised an error.
Gyro_wired(w) == IF w.error THEN w ELSE gyroController_getController(w)

Gyro_setupEffect(w) == effectAssigned(Gyro_wired(Gyro_removeEffect(w)), "controller")

Gyro_start(w) == started(Gyro_setupEffect(w))

Gyro_tick(w, behaviour) ==
    IF w.effect = "null" THEN [w EXCEPT !.error = TRUE]
    ELSE gyroController_tick(w, behaviour, 1)

\* A progress over the range from zero - max to zero, half of the range.
Gyro_progress_halfRange(angle, zero, max) ==
    ToPrecision(clamp(Num(0), Num(1), Div(Add(Sub(angle, zero), max), max)), PRECISION)

\* +clamp(0, 1, (angle - zero + max) / (max * 2)).toPrecision(4)
Gyro_progress(angle, zero, max) ==
    ToPrecision(clamp(Num(0), Num(1), Div(Add(Sub(angle, zero), max), Mul(max, Num(2)))),
                PRECISION)

\* A calibration that goes on after the budget of samples is used up.
Gyro_calibrate_unbounded(c, gamma, beta) ==
    [samples |-> IF c.samples > 0 THEN c.samples - 1 ELSE 0,
     gammaZero |-> Div(Add(gamma, c.gammaZero), Num(2)),
     betaZero |-> Div(Add(beta, c.betaZero), Num(2))]

\* if (samples > 0) { samples -= 1; gammaZero = (gamma + gammaZero) / 2; .. }
\* gammaZero starts at 0, never null: every sample is averaged in.
Gyro_calibrate(c, gamma, beta) ==
    IF c.samples > 0
    THEN [samples |-> c.samples - 1,
          gammaZero |-> Div(Add(gamma, c.gammaZero), Num(2)),
          betaZero |-> Div(Add(beta, c.betaZero), Num(2))]
    ELSE c

\* this.progress.x = ..; this.progress.y = ..; this._nextTick = trigger()
Gyro_calibrated(w, c, gamma, beta) ==
    assignNextTick(frameThrottle(
        [w EXCEPT !.measured = @ + 1, !.calibration = c,
                  !.progress.x = Gyro_progress(gamma, c.gammaZero, Num(w.config.maxGamma)),
                  !.progress.y = Gyro_progress(beta, c.betaZero, Num(w.config.maxBeta))]))

\* A _measure that reads a null angle as 0.
Gyro_measure_nullAsZero(w, event) ==
    Gyro_calibrated(w,
                    Gyro_calibrate(w.calibration,
                                   IF event.gamma = <<>> THEN Num(0) ELSE event.gamma[1],
                                   IF event.beta = <<>> THEN Num(0) ELSE event.beta[1]),
                    IF event.gamma = <<>> THEN Num(0) ELSE event.gamma[1],
                    IF event.beta = <<>> THEN Num(0) ELSE event.beta[1])

\* _measure(event); a null angle is <<>>, a reading <<n>>.
Gyro_measure(w, event) ==
    IF event.gamma = <<>> \/ event.beta = <<>> THEN w
    ELSE Gyro_calibrated(w, Gyro_calibrate(w.calibration, event.gamma[1], event.beta[1]),
                         event.gamma[1], event.beta[1])


(***************************************************************************)
(* Bounds of the model.                                                    *)
(***************************************************************************)
\* The clock of the lifecycle specification stops here.
MaxNow == 3

\* The clock of the transition specification stops here.
MaxClock == 5

\* Start is not taken when it would leave more resize registrations than this.
MaxResizeRegs == 3

\* A scroll-settled signal is not taken with this many callbacks pending.
MaxFrames == 1

(***************************************************************************)
(* Construction.                                                           *)
(***************************************************************************)
Scene(disabled, centered, hasDestroy) ==
    [disabled |-> disabled, centered |-> centered, hasDestroy |-> hasDestroy,
     hasEffect |-> TRUE]

\* A scene whose `effect` is missing.
WithoutEffect(scene) == [scene EXCEPT !.hasEffect = FALSE]

PointerConfig(root, eventSource, allowActiveEvent, noThrottle, transitionDuration, scenes) ==
    [kind |-> "pointer", root |-> root, eventSource |-> eventSource,
     allowActiveEvent |-> allowActiveEvent, noThrottle |-> noThrottle,
     transitionDuration |-> transitionDuration, scenes |-> scenes, hasScenes |-> TRUE,
     samples |-> 0, maxBeta |-> 0, maxGamma |-> 0]

\* The Gyro constructor's defaults: samples 3 unless a number, 15 for a falsy maximum.
GyroConfig(samples, maxBeta, maxGamma, scenes) ==
    [kind |-> "gyro", root |-> FALSE, eventSource |-> FALSE, allowActiveEvent |-> FALSE,
     noThrottle |-> FALSE, transitionDuration |-> 0, scenes |-> scenes, hasScenes |-> TRUE,
     samples |-> samples,
     maxBeta |-> IF maxBeta = 0 THEN 15 ELSE maxBeta,
     maxGamma |-> IF maxGamma = 0 THEN 15 ELSE maxGamma]

\* A config whose `scenes` is missing.
WithoutScenes(c) == [c EXCEPT !.scenes = <<>>, !.hasScenes = FALSE]

Size(width, height) == [width |-> Num(width), height |-> Num(height)]

Point(x, y) == [x |-> Num(x), y |-> Num(y)]

Rect(left, top, width, height) ==
    [left |-> Num(left), top |-> Num(top), width |-> Num(width), height |-> Num(height)]

\* The state a constructor leaves, for a config, the root's size and the target's box.
Constructed(c, size, target) ==
    /\ config = c
    /\ rect = size
    /\ rootSize = size
    /\ targetRect = target
    /\ windowScroll = Point(0, 0)
    /\ transforms = [i \in 1..Len(c.scenes) |-> <<>>]
    /\ effect = "null"
    /\ nextTick = HNull
    /\ nextTransitionTick = HNull
    /\ startTime = 0
    /\ progress = IF c.kind = "gyro"
                  THEN Snapshot(Num(0), Num(0), Num(0), Num(0), "absent")
                  ELSE Snapshot(Div(size.width, Num(2)), Div(size.height, Num(2)),
                                Num(0), Num(0), "absent")
    /\ previousProgress = progress
    /\ currentProgress = <<>>
    /\ throttled = FALSE
    /\ calibration = [samples |-> c.samples, gammaZero |-> Num(0), betaZero |-> Num(0)]
    /\ lastProgress = <<>>
    /\ scrollPosition = Point(0, 0)
    /\ resizeRegs = 0
    /\ scrollendRegs = 0
    /\ timers = <<>>
    /\ polyfill = [listeners |-> 0, handlers |-> {}, removeScrollendPolyfill |-> <<>>,
                   others |-> <<>>]
    /\ listeners = {}
    /\ frames = <<>>
    /\ now = 1
    /\ calls = <<>>
    /\ hookCalls = <<>>
    /\ measured = 0
    /\ sample = <<>>
    /\ unanswered = 0
    /\ prevUnanswered = 0
    /\ error = FALSE
    /\ thrown = 0
    /\ lastOp = "new"
    /\ phase = "idle"
    /\ prevPhase = "idle"
    /\ controllers = 0
    /\ notified = TRUE

(***************************************************************************)
(* Operations.                                                             *)
(***************************************************************************)
IsGyro == config.kind = "gyro"

Start ==
    /\ resizeRegs + (IF IsGyro THEN 0 ELSE Len(config.scenes)) <= MaxResizeRegs
    /\ Commit(IF IsGyro THEN Gyro_start(Begin("start")) ELSE Pointer_start(Begin("start")))

Pause ==
    LET w == IF IsGyro THEN Gyro_pause(Begin("pause")) ELSE Pointer_pause(Begin("pause"))
    IN  Commit([w EXCEPT !.phase = IF @ = "active" THEN "paused" ELSE @])

Destroy ==
    Commit(IF IsGyro THEN Gyro_destroy(Begin("destroy")) ELSE Pointer_destroy(Begin("destroy")))

\* The public tick().
Tick(behaviours) ==
    \E b \in behaviours:
        Commit(IF IsGyro THEN Gyro_tick(Begin("tick"), b) ELSE Pointer_tick(Begin("tick"), b))

\* The pointermove listener attached at `at`, if any, runs for an event whose
\* target is `target`.
listen(w, at, target, point, behaviour) ==
    IF <<at, "pointermove", FALSE>> \in w.listeners
    THEN Pointer_measure(w, target, point, behaviour)
    ELSE w

\* An error a listener raised is reported and the dispatch goes on.
reported(w, raised) == [w EXCEPT !.error = @ \/ raised]

\* The event reaches the window after the listeners of its target ran.
bubble(w, target, point, behaviour) ==
    reported(listen([w EXCEPT !.error = FALSE], "root", target, point, behaviour), w.error)

\* dispatch of a pointermove event at `target`.  An event at the event source
\* bubbles to the window, which is `element` when no root is configured; with a
\* root the source's listener stops the propagation and the root is not assumed
\* to be an ancestor of the source.  "root" stands for any other place inside
\* `element`.
dispatchEvent(w, target, point, behaviour) ==
    IF target = "source" /\ ~w.config.root
    THEN bubble(listen(w, "source", target, point, behaviour), target, point, behaviour)
    ELSE listen(w, target, target, point, behaviour)

\* The places an input event can be dispatched at.
Targets == IF config.eventSource THEN {"root", "source"} ELSE {"root"}

\* A pointermove event.
PointerMove(points, behaviours) ==
    /\ ~IsGyro
    /\ \E target \in Targets, point \in points, b \in behaviours:
          Commit(dispatchEvent([Begin("pointermove") EXCEPT !.sample = <<point>>],
                               target, point, b))

\* A pointerleave event; it does not bubble.
PointerLeave(behaviours) ==
    /\ ~IsGyro
    /\ \E target \in Targets, b \in behaviours:
          Commit(IF <<target, "pointerleave", FALSE>> \in listeners
                 THEN pointerLeave(Begin("pointerleave"), b)
                 ELSE Begin("pointerleave"))

\* A pointerenter event; it does not bubble.
PointerEnter(behaviours) ==
    /\ ~IsGyro
    /\ \E target \in Targets, b \in behaviours:
          Commit(IF <<target, "pointerenter", FALSE>> \in listeners
                 THEN pointerEnter(Begin("pointerenter"), b)
                 ELSE Begin("pointerenter"))

\* A deviceorientation event.
DeviceOrientation(events) ==
    /\ IsGyro
    /\ \E event \in events:
          Commit(IF <<"window", "deviceorientation", FALSE>> \in listeners
                 THEN Gyro_measure([Begin("deviceorientation") EXCEPT !.sample = <<event>>],
                                   event)
                 ELSE [Begin("deviceorientation") EXCEPT !.sample = <<event>>])

\* The callback of a scroll-settled re-dispatch: tick && tick(lastProgress), with the
\* tick and the lastProgress object bound when the listener was made.
redispatch(w, callback, behaviour) ==
    IF callback.bound = <<>> THEN controller_tick(w, Ref("lastProgress"), behaviour)
    ELSE [controller_scenes(w, Bound(callback.bound[1]), behaviour, 1) EXCEPT !.error = TRUE]

\* The callback of a throttled trigger: throttled = false; fn().
throttle_callback(w, behaviour) ==
    IF w.config.kind = "gyro" THEN Gyro_tick(w, behaviour)
    ELSE IF w.config.transitionDuration # 0 THEN transition(w, behaviour)
    ELSE Pointer_tick(w, behaviour)

\* A throttle that clears its flag when the callback has returned.
run_clearedLate(w, callback, behaviour) ==
    CASE callback.kind = "throttle" -> [throttle_callback(w, behaviour) EXCEPT !.throttled = FALSE]
      [] callback.kind = "loop" -> transition_tick(w, w.now, callback.resetMovement, behaviour)
      [] OTHER -> redispatch(w, callback, behaviour)

\* The callback that left the queue runs.
run(w, callback, behaviour) ==
    CASE callback.kind = "throttle" -> throttle_callback([w EXCEPT !.throttled = FALSE], behaviour)
      [] callback.kind = "loop" -> transition_tick(w, w.now, callback.resetMovement, behaviour)
      [] OTHER -> redispatch(w, callback, behaviour)

\* The oldest pending animation-frame callback runs.
Frame(behaviours) ==
    /\ frames # <<>>
    /\ \E b \in behaviours:
          Commit(run(Unqueue(Begin(IF frames[1].kind = "scroll" THEN "redispatch" ELSE "frame"),
                             1),
                     frames[1], b))

\* Time passes, one frame of 60 Hz at a step, until the clock shows `max`; only
\* transition() reads the clock.
Advance(max) ==
    /\ config.transitionDuration # 0
    /\ now < max
    /\ Commit([Begin("advance") EXCEPT !.now = @ + 1])

\* A resize handler that leaves config.rect as it was.
windowResize_stale(w, size) == w

\* windowResize(config): the viewport's size is written to config.rect.
windowResize(w, size) == [w EXCEPT !.rect = size]

\* The callback of observeRootResize's observer: the root's border box is written
\* to config.rect.
observeRootResize(w, size) == [w EXCEPT !.rect = size]

\* The root (or the viewport) takes a new size: every registered observer or
\* handler runs; with none registered the change goes unobserved.
Resize(sizes) ==
    \E size \in sizes:
        /\ size # rootSize
        /\ Commit(IF resizeRegs = 0
                  THEN [Begin("resize") EXCEPT !.rootSize = size, !.notified = FALSE]
                  ELSE IF config.root
                  THEN observeRootResize([Begin("resize") EXCEPT !.rootSize = size,
                                                                 !.notified = TRUE], size)
                  ELSE windowResize([Begin("resize") EXCEPT !.rootSize = size,
                                                            !.notified = TRUE], size))

\* The layout moves or resizes the scenes' target; nothing of the driver observes it.
Layout(rects) ==
    \E r \in rects:
        /\ r # targetRect
        /\ Commit([Begin("layout") EXCEPT !.targetRect = r])

\* The polyfill's scroll listeners run for a scroll event: the closures whose
\* listener is still registered.
RECURSIVE scrollListeners(_, _)
scrollListeners(w, i) ==
    IF i > Len(w.timers) THEN w
    ELSE scrollListeners(IF w.timers[i].bound = <<>> THEN scrollListener(w, i) ELSE w, i + 1)

\* The window scrolls.
Scroll(offsets) ==
    \E offset \in offsets:
        /\ offset # windowScroll
        /\ Commit(scrollListeners([Begin("scroll") EXCEPT !.windowScroll = offset], 1))

\* A callback that requests the re-dispatch and leaves the scroll position unread.
scrollendCallback_unread(w) == requestAnimationFrame(w, ScrollFrame)

\* scrollendCallback bound to the controller's scrollPosition, tick and lastProgress.
scrollendCallback(w) ==
    requestAnimationFrame([w EXCEPT !.scrollPosition = w.windowScroll], ScrollFrame)

\* scrollendCallback called by a listener that outlived its controller: `this` is
\* the scrollPosition of that controller, lastProgress the object it was bound to.
scrollendCallback_bound(w, bound) ==
    requestAnimationFrame(w, [ScrollFrame EXCEPT !.bound = bound])

\* A scrollend event while the native listener is registered.
Scrollend ==
    /\ onscrollend
    /\ scrollendRegs > 0
    /\ Len(frames) < MaxFrames
    /\ Commit(scrollendCallback(Begin("scrollend")))

\* The closure's timers once one of them ran; a closure without a listener and
\* without a timer is gone.
timer_done(w, i) ==
    IF w.timers[i].bound # <<>> /\ ~TimerPending(w.timers[i])
    THEN [w EXCEPT !.timers = RemoveAt(@, i)]
    ELSE w

\* The debounce timer's callback: if (pointers.size) setTimeout(scrollListener, 100)
\* else { listener(evt); timeout = 0 }
timeout_callback(w, i, touching) ==
    IF touching THEN [w EXCEPT !.timers[i].retry = TRUE]
    ELSE IF w.timers[i].bound = <<>> THEN scrollendCallback(w)
    ELSE scrollendCallback_bound(w, w.timers[i].bound)

\* The polyfill's debounce timer of closure i runs, 100 ms after the last scroll
\* event, with or without a touch pointer down.
Timeout ==
    \E i \in 1..Len(timers), touching \in BOOLEAN:
        /\ timers[i].debounce
        /\ touching \/ Len(frames) < MaxFrames
        /\ Commit(timer_done(
                      timeout_callback(
                          [Begin(IF touching THEN "timeout"
                                 ELSE IF timers[i].bound = <<>> THEN "scrollend"
                                 ELSE "scrollend of a destroyed controller")
                              EXCEPT !.timers[i].debounce = FALSE],
                          i, touching),
                      i))

\* The polyfill's setTimeout(scrollListener, 100) of closure i runs.
Retry ==
    \E i \in 1..Len(timers):
        /\ timers[i].retry
        /\ Commit(scrollListener([Begin("timeout") EXCEPT !.timers[i].retry = FALSE], i))

\* The scrollend listeners of other callers that are registered at a time: this
\* many at most.
MaxOthers == 2

\* The touch handler pairs followed: no registration is made with this many
\* installed.
MaxHandlers == 2

\* Another caller registers a scrollend listener through the polyfill.
AddListener ==
    /\ ~onscrollend
    /\ Len(polyfill.others) < MaxOthers
    /\ Cardinality(polyfill.handlers) < MaxHandlers
    /\ Commit([Begin("addScrollendListener") EXCEPT
                  !.polyfill = [polyfill_add(@) EXCEPT
                                   !.others = Append(@, removeScrollendPolyfill(polyfill))]])

\* Another caller calls, once, the function addScrollendListener returned to it.
RemoveListener ==
    \E i \in 1..Len(polyfill.others):
        Commit([Begin("removeScrollendListener") EXCEPT
                   !.polyfill = [polyfill_remove(@, @.others[i]) EXCEPT
                                    !.others = RemoveAt(@, i)],
                   !.error = polyfill_fails(polyfill, polyfill.others[i])])


(***************************************************************************)
(* Spec: the lifecycle of one driver, Pointer or Gyro, under every         *)
(* interleaving of start, pause, destroy, tick, input events, animation    *)
(* frames and effects that call destroy().         *)
(***************************************************************************)
LifeScenes ==
    {<<Scene(FALSE, FALSE, TRUE)>>,
     <<Scene(FALSE, TRUE, FALSE), Scene(TRUE, FALSE, TRUE)>>}

LifeConfigs ==
    {PointerConfig(root, eventSource, allowActiveEvent, noThrottle, 0, scenes):
        root \in BOOLEAN, eventSource \in BOOLEAN, allowActiveEvent \in BOOLEAN,
        noThrottle \in BOOLEAN, scenes \in LifeScenes}
    \cup {PointerConfig(FALSE, FALSE, FALSE, noThrottle, 2, <<Scene(FALSE, FALSE, TRUE)>>):
        noThrottle \in BOOLEAN}
    \cup {GyroConfig(samples, 0, 0, scenes): samples \in {0, 1}, scenes \in LifeScenes}

LifePoints == {Point(1, 1)}

LifeEvents ==
    {[gamma |-> <<>>, beta |-> <<Num(0)>>], [gamma |-> <<Num(10)>>, beta |-> <<Num(-10)>>]}

Init ==
    /\ onscrollend = TRUE
    /\ \E c \in LifeConfigs: Constructed(c, Size(4, 2), Rect(1, 0, 2, 2))

Next ==
    \/ Start
    \/ Pause
    \/ Destroy
    \/ Tick(Behaviours(Len(config.scenes)))
    \/ PointerMove(LifePoints, Behaviours(Len(config.scenes)))
    \/ PointerLeave(Behaviours(Len(config.scenes)))
    \/ PointerEnter(Behaviours(Len(config.scenes)))
    \/ DeviceOrientation(LifeEvents)
    \/ Frame(Behaviours(Len(config.scenes)))
    \/ Advance(MaxNow)

Spec == Init /\ [][Next]_vars


(***************************************************************************)
(* The lifecycle claims, checked under Spec.                               *)
(***************************************************************************)
InputEvents == {"pointermove", "pointerenter", "pointerleave"}

\* Whether an effect pipeline is wired.
Wired == effect # "null"

\* The callbacks pending on behalf of the driver: throttled triggers and
\* transition loops.
DriverFrames == {j \in 1..Len(frames): frames[j].kind \in {"throttle", "loop"}}

\* The listeners setupEvent() attaches for the driver's config.
Attached ==
    IF IsGyro THEN {<<"window", "deviceorientation", FALSE>>}
    ELSE {<<"root", "pointermove", FALSE>>}
         \cup (IF config.eventSource THEN {<<"source", "pointermove", FALSE>>} ELSE {})
         \cup (IF config.allowActiveEvent
               THEN {<<"root", "pointerleave", FALSE>>, <<"root", "pointerenter", FALSE>>}
               ELSE {})
         \cup (IF config.allowActiveEvent /\ config.eventSource
               THEN {<<"source", "pointerleave", FALSE>>, <<"source", "pointerenter", FALSE>>}
               ELSE {})

\* The scenes that define a destroy hook, in the order of the scene list.
Hooks == SelectSeq([i \in 1..Len(config.scenes) |-> i], LAMBDA i: config.scenes[i].hasDestroy)

\* C1: after destroy() has returned, no animation-frame callback of the driver is
\* pending, neither a throttled trigger nor a transition loop, whatever came before.
C1_NoFrameAfterDestroy == lastOp = "destroy" => DriverFrames = {}

\* C2: when an effect invoked during a pointer tick calls destroy(), the tick in
\* progress finishes without raising an error.
C2_DestroyInsideEffect ==
    (~IsGyro /\ lastOp # "destroy" /\ prevPhase # "destroyed" /\ phase = "destroyed")
        => ~error

\* C3: after pause() and until the next start(), an input event on the root, the
\* window or the event source invokes no measure, leaves the live snapshot as it
\* was and arms no frame.
C3_PausedIgnoresInput ==
    [][(phase = "paused" /\ lastOp' \in InputEvents)
          => (measured' = 0 /\ progress' = progress /\ frames' = frames)]_vars

\* C4: after start(), however often it was called, each input listener is attached
\* once and one pipeline is wired, and one input event on an active driver causes
\* exactly one measure.
C4_StartAttachesOnce ==
    /\ lastOp = "start" => (listeners = Attached /\ Wired /\ controllers = 1)
    /\ (lastOp = "pointermove" /\ prevPhase = "active") => measured = 1

\* C5: destroy() on a driver that was never started, or that is destroyed already,
\* raises no error and leaves the pipeline torn down, for the pointer and the
\* orientation driver.
C5_DestroyAgain ==
    (lastOp = "destroy" /\ prevPhase \in {"idle", "destroyed"})
        => (~error /\ ~Wired /\ controllers = 0)

\* destroy() has run on a driver left destroyed by the destroy() before it.
C5_Witness ==
    /\ lastOp = "destroy" /\ prevPhase = "destroyed"
    /\ ~error /\ ~Wired
    /\ hookCalls = <<>> /\ Hooks # <<>>

\* C6: a pipeline is wired exactly in the phases active and paused, and start() and
\* destroy() invoke the destroy hook of every scene that defines one, disabled or
\* not, once and in order when a pipeline was wired, and invoke none when none was.
C6_HooksOncePerTeardown ==
    /\ Wired <=> phase \in {"active", "paused"}
    /\ lastOp \in {"start", "destroy"}
          => hookCalls = IF prevPhase \in {"active", "paused"} THEN Hooks ELSE <<>>

\* start() on an active driver has invoked the hook of its disabled second scene.
C6_Witness ==
    /\ lastOp = "start" /\ prevPhase = "active"
    /\ Len(config.scenes) = 2 /\ config.scenes[2].disabled
    /\ hookCalls = <<2>>


(***************************************************************************)
(* SpecNorm: normalization.  A pointer driver without throttling, so that  *)
(* every measure ticks at once, with a linear scene, a centered scene or   *)
(* both, over roots that are resized (also to a width of 0), a window that *)
(* scrolls, and raw positions inside, on the edge of and outside the root. *)
(* The driver is started once.                                             *)
(***************************************************************************)
NormScenes ==
    {<<Scene(FALSE, FALSE, FALSE)>>,
     <<Scene(FALSE, TRUE, FALSE)>>,
     <<Scene(FALSE, TRUE, FALSE), Scene(FALSE, FALSE, FALSE)>>}

NormConfigs ==
    {PointerConfig(FALSE, FALSE, FALSE, TRUE, 0, scenes): scenes \in NormScenes}
    \cup {PointerConfig(TRUE, FALSE, FALSE, TRUE, 0, <<Scene(FALSE, FALSE, FALSE)>>)}

NormSizes == {Size(400, 200), Size(600, 400), Size(0, 200)}

NormPoints == {Point(100, 100), Point(0, 0), Point(-200, 20)}

NormOffsets == {Point(0, 0), Point(0, 50)}

InitNorm ==
    /\ onscrollend = TRUE
    /\ \E c \in NormConfigs: Constructed(c, Size(400, 200), Rect(50, 50, 100, 100))

NextNorm ==
    \/ (phase = "idle" /\ Start)
    \/ Tick({Quiet})
    \/ PointerMove(NormPoints, {Quiet})
    \/ Resize(NormSizes)
    \/ Scroll(NormOffsets)
    \/ Scrollend
    \/ Frame({Quiet})

SpecNorm == InitNorm /\ [][NextNorm]_vars


(***************************************************************************)
(* The normalization claims, checked under SpecNorm.                       *)
(***************************************************************************)
\* The zeros allowed between the decimal point and the first significant digit.
MaxLeadingZeros == 1

\* r is the fraction n/d, 0 < n < d, rounded half up to PRECISION significant
\* digits: r = m / 10^e for an m of PRECISION digits (or the power of ten above
\* them) with m - 1/2 <= (n/d) * 10^e < m + 1/2.
IsRounded(r, n, d) ==
    \E k \in 0..MaxLeadingZeros:
        /\ Pow10(k + PRECISION) % r[2] = 0
        /\ r[1] * (Pow10(k + PRECISION) \div r[2]) >= Pow10(PRECISION - 1)
        /\ r[1] * (Pow10(k + PRECISION) \div r[2]) <= Pow10(PRECISION)
        /\ (2 * r[1] * (Pow10(k + PRECISION) \div r[2]) - 1) * d <= 2 * n * Pow10(k + PRECISION)
        /\ 2 * n * Pow10(k + PRECISION) < (2 * r[1] * (Pow10(k + PRECISION) \div r[2]) + 1) * d

\* r is q clamped to [0, 1] and rounded to PRECISION significant digits; an
\* undefined q (0/0) has an undefined r.
IsProgressOf(r, q) ==
    IF IsNaN(q) THEN IsNaN(r)
    ELSE IF ~IsFinite(q) THEN r = (IF q[1] < 0 THEN Num(0) ELSE Num(1))
    ELSE IF q[1] <= 0 THEN r = Num(0)
    ELSE IF q[1] >= q[2] THEN r = Num(1)
    ELSE IsRounded(r, q[1], q[2])

InUnitInterval(v) == IsFinite(v) /\ 0 <= v[1] /\ v[1] <= v[2]

\* The effect invocations of the last operation that went to scenes without, and
\* with, a centered target.
LinearCalls == {j \in 1..Len(calls): ~config.scenes[calls[j].scene].centered}

CenteredCalls == {j \in 1..Len(calls): config.scenes[calls[j].scene].centered}

\* (raw - origin) / span of the farthest-edge formula, given c, the target's
\* center less the scroll offset, and whether c >= rootSize / 2.
FarthestEdge_side(raw, c, rootDim, isFarSide) ==
    IF isFarSide THEN Div(raw, Mul(Num(2), c))
    ELSE Div(Sub(raw, Sub(c, Sub(rootDim, c))), Mul(Num(2), Sub(rootDim, c)))

FarthestEdge_center(raw, c, rootDim) ==
    FarthestEdge_side(raw, c, rootDim, Le(Div(rootDim, Num(2)), c))

FarthestEdge(raw, start, size, scroll, rootDim) ==
    FarthestEdge_center(raw, Add(Sub(start, scroll), Div(size, Num(2))), rootDim)

\* C7: every progress.x and progress.y an effect receives lies in [0, 1], for
\* every raw input and every geometry, a root dimension of 0 included.
C7_ProgressInUnitInterval ==
    \A j \in 1..Len(calls): InUnitInterval(calls[j].x) /\ InUnitInterval(calls[j].y)

C9_ResizeUpdatesDenominator ==
    notified =>
        /\ rect = rootSize
        /\ \A j \in LinearCalls:
              /\ IsProgressOf(calls[j].x, Div(calls[j].rawX, rootSize.width))
              /\ IsProgressOf(calls[j].y, Div(calls[j].rawY, rootSize.height))

\* After the viewport was resized to 600x400, raw (100, 100) gave {0.1667, 0.25}.
C9_Witness ==
    /\ ~config.root /\ notified /\ rootSize = Size(600, 400)
    /\ \E j \in LinearCalls:
          /\ calls[j].rawX = Num(100) /\ calls[j].rawY = Num(100)
          /\ calls[j].x = Rat(1667, 10000) /\ calls[j].y = Rat(1, 4)

\* C10: a scene with a centered target receives, on each axis, (raw - origin) / span
\* of the farthest-edge formula clamped to [0, 1] and rounded to 4 significant
\* digits, for every raw value, raw = origin and raw = c included.
C10_CenteredNormalization ==
    \A j \in CenteredCalls:
        /\ IsProgressOf(calls[j].x,
                        FarthestEdge(calls[j].rawX, transforms[calls[j].scene][1].left,
                                     transforms[calls[j].scene][1].width,
                                     scrollPosition.x, rect.width))
        /\ IsProgressOf(calls[j].y,
                        FarthestEdge(calls[j].rawY, transforms[calls[j].scene][1].top,
                                     transforms[calls[j].scene][1].height,
                                     scrollPosition.y, rect.height))


(***************************************************************************)
(* SpecCenter: centered scenes.  A pointer driver without throttling with  *)
(* a centered scene in a 200x200 viewport, started once, while the target  *)
(* moves, the window scrolls and the scroll settles, with the native       *)
(* scrollend event or with its polyfill.                                   *)
(***************************************************************************)
CenterScenes == {<<Scene(FALSE, TRUE, FALSE)>>}

CenterConfigs == {PointerConfig(FALSE, FALSE, FALSE, TRUE, 0, scenes): scenes \in CenterScenes}

CenterPoints == {Point(100, 100), Point(50, 50), Point(200, 200), Point(0, 0)}

CenterRects == {Rect(50, 50, 100, 100), Rect(0, 50, 100, 100)}

CenterOffsets == {Point(0, 0), Point(0, 50)}

InitCenter ==
    /\ onscrollend \in BOOLEAN
    /\ \E c \in CenterConfigs: Constructed(c, Size(200, 200), Rect(50, 50, 100, 100))

NextCenter ==
    \/ (phase = "idle" /\ Start)
    \/ Tick({Quiet})
    \/ PointerMove(CenterPoints, {Quiet})
    \/ Layout(CenterRects)
    \/ Scroll(CenterOffsets)
    \/ Scrollend
    \/ Timeout
    \/ Retry
    \/ Frame({Quiet})

SpecCenter == InitCenter /\ [][NextCenter]_vars

(***************************************************************************)
(* The claims about centered scenes, checked under SpecCenter.             *)
(***************************************************************************)
\* The effect invocations of the last operation made for a centered scene whose
\* transform holds the target box {left 50, top 50, width 100, height 100}, in a
\* 200x200 root with no scroll offset.
ExampleCalls ==
    {j \in CenteredCalls:
        /\ rect = Size(200, 200)
        /\ transforms[calls[j].scene] = <<Rect(50, 50, 100, 100)>>
        /\ scrollPosition = Point(0, 0)}

\* C11 as stated: in the example geometry the progress on an axis is 0.5 at raw
\* 100, 0 at the target's near edge (raw 50) and 1 at the far mirrored boundary
\* (raw 200).
C11_TargetEdgeIsZero ==
    \A j \in ExampleCalls:
        /\ calls[j].rawX = Num(100) => calls[j].x = Rat(1, 2)
        /\ calls[j].rawY = Num(100) => calls[j].y = Rat(1, 2)
        /\ calls[j].rawX = Num(50) => calls[j].x = Num(0)
        /\ calls[j].rawY = Num(50) => calls[j].y = Num(0)
        /\ calls[j].rawX = Num(200) => calls[j].x = Num(1)
        /\ calls[j].rawY = Num(200) => calls[j].y = Num(1)

\* C11 amended: in the example geometry the progress on an axis is 0.5 at raw 100,
\* 0 at the root's near edge (raw 0), 0.25 at the target's near edge (raw 50)
\* and 1 at the far mirrored boundary (raw 200).
C11_RootEdgeIsZero ==
    \A j \in ExampleCalls:
        /\ calls[j].rawX = Num(100) => calls[j].x = Rat(1, 2)
        /\ calls[j].rawY = Num(100) => calls[j].y = Rat(1, 2)
        /\ calls[j].rawX = Num(0) => calls[j].x = Num(0)
        /\ calls[j].rawY = Num(0) => calls[j].y = Num(0)
        /\ calls[j].rawX = Num(50) => calls[j].x = Rat(1, 4)
        /\ calls[j].rawY = Num(50) => calls[j].y = Rat(1, 4)
        /\ calls[j].rawX = Num(200) => calls[j].x = Num(1)
        /\ calls[j].rawY = Num(200) => calls[j].y = Num(1)

\* The centered scene received {0.25, 0.25} at the target's near corner.
C11_Witness ==
    \E j \in ExampleCalls:
        /\ calls[j].rawX = Num(50) /\ calls[j].rawY = Num(50)
        /\ calls[j].x = Rat(1, 4) /\ calls[j].y = Rat(1, 4)

\* C12: while the driver stays wired, every tick normalizes a centered scene
\* against the rectangle its target has at that time, also after the target
\* moved or was resized.
C12_TargetRectCurrent ==
    \A j \in CenteredCalls:
        /\ IsProgressOf(calls[j].x,
                        FarthestEdge(calls[j].rawX, targetRect.left, targetRect.width,
                                     scrollPosition.x, rect.width))
        /\ IsProgressOf(calls[j].y,
                        FarthestEdge(calls[j].rawY, targetRect.top, targetRect.height,
                                     scrollPosition.y, rect.height))

\* C13: the scroll offset a centered scene is normalized with is (0, 0) from
\* start() on, whatever the window's scroll position, becomes the window's
\* scroll position at each scroll-settled signal, native or polyfilled, and
\* changes at no other step, a scroll of the window included; every delivery
\* uses the target center shifted back by that offset.
C13_ScrollOffsetAtSettle ==
    [][/\ lastOp' = "start" => scrollPosition' = Point(0, 0)
       /\ lastOp' = "scrollend" => scrollPosition' = windowScroll
       /\ lastOp' \notin {"start", "scrollend"} => scrollPosition' = scrollPosition
       /\ \A j \in 1..Len(calls'):
             /\ IsProgressOf(calls'[j].x,
                             FarthestEdge(calls'[j].rawX, transforms'[calls'[j].scene][1].left,
                                          transforms'[calls'[j].scene][1].width,
                                          scrollPosition'.x, rect'.width))
             /\ IsProgressOf(calls'[j].y,
                             FarthestEdge(calls'[j].rawY, transforms'[calls'[j].scene][1].top,
                                          transforms'[calls'[j].scene][1].height,
                                          scrollPosition'.y, rect'.height))]_vars

\* With the polyfill, after the scroll settled at (0, 50) the re-dispatched raw
\* y = 100 was delivered as 200/300: the target center 100 was shifted to 50.
C13_Witness ==
    /\ ~onscrollend /\ lastOp = "redispatch"
    /\ scrollPosition = Point(0, 50) /\ transforms[1] = <<Rect(50, 50, 100, 100)>>
    /\ \E j \in CenteredCalls: calls[j].rawY = Num(100) /\ calls[j].y = Rat(6667, 10000)


(***************************************************************************)
(* SpecActive: activity tracking, velocity and throttling.  A pointer      *)
(* driver with activity tracking, throttled or not, with a linear scene or *)
(* with a centered, a disabled and a linear scene in a 200x200 viewport,   *)
(* started once; the pointer moves inside, onto the edges of and beyond    *)
(* the viewport, leaves and enters.                                        *)
(***************************************************************************)
ActiveScenes ==
    {<<Scene(FALSE, FALSE, FALSE)>>,
     <<Scene(FALSE, TRUE, FALSE), Scene(TRUE, FALSE, FALSE), Scene(FALSE, FALSE, FALSE)>>}

ActiveConfigs ==
    {PointerConfig(FALSE, FALSE, TRUE, noThrottle, 0, scenes):
        noThrottle \in BOOLEAN, scenes \in ActiveScenes}

ActivePoints ==
    {Point(100, 100), Point(200, 200), Point(201, 201), Point(0, 0), Point(-1, -1),
     Point(-100, 0)}

InitActive ==
    /\ onscrollend = TRUE
    /\ \E c \in ActiveConfigs: Constructed(c, Size(200, 200), Rect(0, 50, 100, 100))

NextActive ==
    \/ (phase = "idle" /\ Start)
    \/ Tick({Quiet})
    \/ PointerMove(ActivePoints, {Quiet})
    \/ PointerLeave({Quiet})
    \/ PointerEnter({Quiet})
    \/ Frame({Quiet})

SpecActive == InitActive /\ [][NextActive]_vars

(***************************************************************************)
(* The claims about the active flag, checked under SpecActive.             *)
(***************************************************************************)
\* The normalized value of effect invocation j before clamping, as specified:
\* raw / rootSize for a linear scene, the farthest-edge formula for a centered one.
PreClampX(j) ==
    IF config.scenes[calls[j].scene].centered
    THEN FarthestEdge(calls[j].rawX, transforms[calls[j].scene][1].left,
                      transforms[calls[j].scene][1].width, scrollPosition.x, rect.width)
    ELSE Div(calls[j].rawX, rect.width)

PreClampY(j) ==
    IF config.scenes[calls[j].scene].centered
    THEN FarthestEdge(calls[j].rawY, transforms[calls[j].scene][1].top,
                      transforms[calls[j].scene][1].height, scrollPosition.y, rect.height)
    ELSE Div(calls[j].rawY, rect.height)

\* C14: with activity tracking, the active flag an effect receives is true iff
\* the scene's normalized x and y before clamping are both within [0, 1], for
\* linear and centered scenes alike, while the progress is the clamped value.
C14_ActiveIffInside ==
    config.allowActiveEvent =>
        \A j \in 1..Len(calls):
            /\ calls[j].active = Flag(InUnitInterval(PreClampX(j)) /\ InUnitInterval(PreClampY(j)))
            /\ IsProgressOf(calls[j].x, PreClampX(j))
            /\ IsProgressOf(calls[j].y, PreClampY(j))

\* Every effect invocation received active = false and the velocity (0, 0).
LeaveDelivered(cs) ==
    \A j \in 1..Len(cs): cs[j].active = "false" /\ cs[j].vx = Num(0) /\ cs[j].vy = Num(0)

\* A tick ran or a throttled frame is pending.
TickArmed(cs, fs) == cs # <<>> \/ \E j \in 1..Len(fs): fs[j].kind = "throttle"

\* C15: with activity tracking, on an active driver a leave notification zeroes
\* the live velocity and arms a tick, an enter notification arms a tick, and the
\* tick armed by a leave (run at once without throttling, by the next frame with
\* it) delivers active = false and the velocity (0, 0) to every enabled scene,
\* wherever the last raw position lies.
C15_LeaveOverrides ==
    [][(config.allowActiveEvent /\ phase = "active") =>
          /\ lastOp' = "pointerleave" =>
                /\ progress'.vx = Num(0) /\ progress'.vy = Num(0)
                /\ TickArmed(calls', frames')
                /\ LeaveDelivered(calls')
          /\ lastOp' = "pointerenter" => TickArmed(calls', frames')
          /\ (lastOp = "pointerleave" /\ lastOp' = "frame") =>
                (calls' # <<>> /\ LeaveDelivered(calls'))]_vars

\* C16: the live snapshot starts at the root's center; a measure overwrites its
\* x and y with the sample and sets its velocity to the sample less the
\* coordinates it replaced; nothing else changes x and y; and every direct tick
\* passes the live velocity to the effects as it is, unclamped.
C16_VelocityIsDelta ==
    [][/\ lastOp = "new" =>
             /\ progress.x = Div(rootSize.width, Num(2))
             /\ progress.y = Div(rootSize.height, Num(2))
       /\ measured' = 1 =>
             /\ progress'.x = sample'[1].x /\ progress'.y = sample'[1].y
             /\ progress'.vx = Sub(sample'[1].x, progress.x)
             /\ progress'.vy = Sub(sample'[1].y, progress.y)
       /\ measured' = 0 => (progress'.x = progress.x /\ progress'.y = progress.y)
       /\ \A j \in 1..Len(calls'):
             calls'[j].vx = progress'.vx /\ calls'[j].vy = progress'.vy]_vars

\* The first sample, (-1, -1) with the snapshot at the center (100, 100), was
\* ticked at once and the effect received the velocity (-101, -101).
C16_Witness ==
    /\ lastOp = "pointermove" /\ sample = <<Point(-1, -1)>>
    /\ calls # <<>> /\ calls[1].vx = Num(-101) /\ calls[1].vy = Num(-101)

\* The enabled scenes, in the order of the scene list.
EnabledScenes == SelectSeq([i \in 1..Len(config.scenes) |-> i], LAMBDA i: ~config.scenes[i].disabled)

ThrottleFrames == {j \in 1..Len(frames): frames[j].kind = "throttle"}

\* C20: with throttling, a measure dispatches nothing itself and at most one
\* throttled frame is pending, however many measures occurred; when the frame
\* fires one tick runs: each enabled scene's effect is invoked once, in order,
\* with the live snapshot, which holds the last sample, and no frame is left.
C20_LastSampleWins ==
    ~config.noThrottle =>
        /\ Cardinality(ThrottleFrames) <= 1
        /\ lastOp = "pointermove" => calls = <<>>
        /\ lastOp = "frame" =>
              /\ [j \in 1..Len(calls) |-> calls[j].scene] = EnabledScenes
              /\ \A j \in 1..Len(calls):
                    calls[j].rawX = progress.x /\ calls[j].rawY = progress.y
              /\ ThrottleFrames = {}

\* Two or more measures were pending when the frame fired; the one tick
\* delivered the last sample, (201, 201), measured after (200, 200).
C20_Witness ==
    /\ lastOp = "frame" /\ prevUnanswered = MaxUnanswered
    /\ Len(calls) = 2 /\ calls[1].scene = 1 /\ calls[2].scene = 3
    /\ calls[1].rawX = Num(201) /\ calls[1].vx = Num(1)
    /\ unanswered = 0

\* C21: with noThrottle set and no transition duration, the handler of every
\* pointermove, pointerenter and pointerleave event on an active driver has run
\* one tick before it returns: each enabled scene's effect was invoked once, in
\* order, and no animation frame was scheduled.
C21_UnthrottledTicksInline ==
    (/\ config.noThrottle /\ config.transitionDuration = 0
     /\ prevPhase = "active" /\ lastOp \in InputEvents) =>
        /\ [j \in 1..Len(calls) |-> calls[j].scene] = EnabledScenes
        /\ frames = <<>>
        /\ ~HTruthy(nextTick)

\* The handler of pointerleave has ticked the first and the third scene, not the
\* disabled second one, and left no frame.
C21_Witness ==
    /\ config.noThrottle /\ lastOp = "pointerleave"
    /\ Len(calls) = 2 /\ calls[1].scene = 1 /\ calls[2].scene = 3
    /\ frames = <<>>

(***************************************************************************)
(* SpecTransition: transitions.  A pointer driver with a transition of 2   *)
(* frames (shorter than MOVEMENT_RESET_DELAY) or of 5 frames, throttled or *)
(* not, with one linear scene in a 4x2 viewport, started once; samples     *)
(* arrive and animation frames run at any time of the clock, which is      *)
(* followed from the first sample on, when this._startTime is first set,   *)
(* and for two frames less where each sample waits for a frame of its own. *)
(***************************************************************************)
TransitionConfigs ==
    {PointerConfig(FALSE, FALSE, FALSE, noThrottle, duration, <<Scene(FALSE, FALSE, FALSE)>>):
        noThrottle \in BOOLEAN, duration \in {2, 5}}

TransitionPoints == {Point(0, 1), Point(4, 1)}

InitTransition ==
    /\ onscrollend = TRUE
    /\ \E c \in TransitionConfigs: Constructed(c, Size(4, 2), Rect(1, 0, 2, 2))

NextTransition ==
    \/ (phase = "idle" /\ Start)
    \/ PointerMove(TransitionPoints, {Quiet})
    \/ Frame({Quiet})
    \/ (startTime # 0 /\ Advance(IF config.noThrottle THEN MaxClock ELSE MaxClock - 2))

SpecTransition == InitTransition /\ [][NextTransition]_vars

\* C17: on the transition frame at which the time elapsed since the start of
\* the transition has reached the configured duration, every effect receives
\* the live x and y and the velocity (0, 0), whatever the duration and the
\* timing of the frames.
C17_CompletionSettles ==
    (/\ lastOp = "frame"
     /\ calls # <<>>
     /\ startTime # 0
     /\ now - startTime >= config.transitionDuration) =>
        \A j \in 1..Len(calls):
            /\ calls[j].rawX = progress.x /\ calls[j].rawY = progress.y
            /\ calls[j].vx = Num(0) /\ calls[j].vy = Num(0)

\* The step now being taken calls transition() while this._startTime is set: a
\* sample of an unthrottled driver, or the frame of a throttled one.
Retriggers ==
    /\ startTime # 0
    /\ \/ config.noThrottle /\ lastOp' = "pointermove" /\ measured' = 1
       \/ ~config.noThrottle /\ lastOp' = "frame" /\ frames[1].kind = "throttle"

LoopFrames(fs) == {j \in 1..Len(fs): fs[j].kind = "loop"}

\* C18: a sample that triggers transition() after the transition has started
\* (a) leaves no frame of the interrupted transition pending, only the one it
\* requests itself, (b) makes the last dispatched interpolated snapshot the
\* previous one, (c) resets the start time to now, and (d) dispatches at once
\* one step at t = 0, whose x and y are those of the last dispatched snapshot.
C18_RetriggerContinues ==
    [][Retriggers =>
          /\ LoopFrames(frames') = {Len(frames')}
          /\ nextTransitionTick' = HPending(Len(frames'))
          /\ startTime' = now
          /\ calls' # <<>>
          /\ currentProgress # <<>> =>
                /\ previousProgress'.x = currentProgress[1].x
                /\ previousProgress'.y = currentProgress[1].y
                /\ previousProgress'.vx = currentProgress[1].vx
                /\ previousProgress'.vy = currentProgress[1].vy
                /\ \A j \in 1..Len(calls'):
                      /\ calls'[j].rawX = currentProgress[1].x
                      /\ calls'[j].rawY = currentProgress[1].y]_vars

\* Half way through a transition of 2 frames from the center (2, 1) to (0, 1)
\* the snapshot (1, 1) was dispatched; the sample (4, 1) then restarted the
\* transition from (1, 1) and the effect received (1, 1) again.
C18_Witness ==
    /\ config.noThrottle /\ config.transitionDuration = 2
    /\ lastOp = "pointermove" /\ measured = 1
    /\ now = 2 /\ startTime = 2
    /\ progress.x = Num(4)
    /\ previousProgress.x = Num(1) /\ previousProgress.y = Num(1)
    /\ Len(calls) = 1 /\ calls[1].rawX = Num(1) /\ calls[1].rawY = Num(1)
    /\ LoopFrames(frames) = {1} /\ Len(frames) = 1

\* C19: while the driver is active, a measure that no invocation of the effects
\* has followed yet has a frame of the driver pending, so that the frame, once
\* delivered, invokes the effects; with a transition duration configured and
\* without, the first measure after construction included.
C19_MeasureIsAnswered ==
    (phase = "active" /\ unanswered > 0) => DriverFrames # {}


(***************************************************************************)
(* SpecTick: the loop over the scenes.  A pointer driver, throttled or     *)
(* not, with or without activation tracking, or an orientation driver      *)
(* without calibration, each with enabled and disabled linear scenes in a  *)
(* 4x2 viewport; any effect may throw when it is invoked.                  *)
(***************************************************************************)
TickScenes ==
    {<<Scene(FALSE, FALSE, FALSE), Scene(TRUE, FALSE, FALSE), Scene(FALSE, FALSE, FALSE)>>,
     <<Scene(TRUE, FALSE, FALSE), Scene(FALSE, FALSE, FALSE)>>}

TickConfigs ==
    {PointerConfig(FALSE, FALSE, allowActiveEvent, noThrottle, 0, scenes):
        allowActiveEvent \in BOOLEAN, noThrottle \in BOOLEAN, scenes \in TickScenes}
    \cup {GyroConfig(0, 0, 0, scenes): scenes \in TickScenes}

TickPoints == {Point(1, 1), Point(5, 1)}

TickEvents == {[gamma |-> <<Num(10)>>, beta |-> <<Num(-10)>>]}

InitTick ==
    /\ onscrollend = TRUE
    /\ \E c \in TickConfigs: Constructed(c, Size(4, 2), Rect(1, 0, 2, 2))

NextTick ==
    \/ (phase # "active" /\ Start)
    \/ Pause
    \/ Tick(Throwing(Len(config.scenes)))
    \/ PointerMove(TickPoints, Throwing(Len(config.scenes)))
    \/ DeviceOrientation(TickEvents)
    \/ Frame(Throwing(Len(config.scenes)))

SpecTick == InitTick /\ [][NextTick]_vars

(***************************************************************************)
(* The claims about the loop, checked under SpecTick.                      *)
(***************************************************************************)
\* The last operation ran a tick of a wired pipeline: the public tick(), the
\* frame of a throttled trigger, or the handler of an unthrottled pointermove.
TickRan ==
    \/ lastOp = "tick" /\ prevPhase \in {"active", "paused"}
    \/ lastOp = "frame"
    \/ lastOp = "pointermove" /\ config.noThrottle /\ prevPhase = "active"

\* Whether the snapshot of call j lies within the bounds of its linear scene.
Inside(j) ==
    /\ Le(Num(0), Div(calls[j].rawX, rect.width)) /\ Le(Div(calls[j].rawX, rect.width), Num(1))
    /\ Le(Num(0), Div(calls[j].rawY, rect.height)) /\ Le(Div(calls[j].rawY, rect.height), Num(1))

EnabledUpTo(i) == SelectSeq(EnabledScenes, LAMBDA k: k <= i)

\* C23: an exception thrown by a scene's effect is not caught: the operation that
\* ran the tick raises it, the effects of the enabled scenes before the throwing
\* one were invoked and none after it, and the tick does not reach its end,
\* where it records the snapshot it was handed.
C23_EffectErrorPropagates ==
    [][thrown' # 0 =>
          /\ error'
          /\ [j \in 1..Len(calls') |-> calls'[j].scene] = EnabledUpTo(thrown')
          /\ lastProgress' = lastProgress]_vars

\* The effect of the first of three scenes threw in the tick of an unthrottled
\* pointermove: the sample (5, 1) is the live snapshot, the third scene's effect
\* was not invoked and the snapshot recorded by the last tick is still (1, 1).
C23_Witness ==
    /\ ~IsGyro /\ config.noThrottle /\ Len(config.scenes) = 3
    /\ lastOp = "pointermove" /\ thrown = 1 /\ error
    /\ Len(calls) = 1 /\ calls[1].scene = 1
    /\ progress.x = Num(5)
    /\ lastProgress # <<>> /\ lastProgress[1].x = Num(1)


(***************************************************************************)
(* SpecConfig: configs that lack what a driver needs.  A pointer or an     *)
(* orientation driver constructed without `scenes`, or with a scene        *)
(* without `effect` after a complete one, or, for comparison, with a       *)
(* complete config, and then used as any driver is.                        *)
(***************************************************************************)
ConfigScenes == <<Scene(FALSE, FALSE, FALSE), Scene(FALSE, FALSE, FALSE)>>

ConfigConfigs ==
    {PointerConfig(FALSE, FALSE, FALSE, noThrottle, 0, scenes):
        noThrottle \in BOOLEAN,
        scenes \in {ConfigScenes, [ConfigScenes EXCEPT ![2] = WithoutEffect(@)]}}
    \cup {WithoutScenes(PointerConfig(FALSE, FALSE, FALSE, TRUE, 0, <<>>))}
    \cup {GyroConfig(0, 0, 0, scenes):
            scenes \in {ConfigScenes, [ConfigScenes EXCEPT ![2] = WithoutEffect(@)]}}
    \cup {WithoutScenes(GyroConfig(0, 0, 0, <<>>))}

InitConfig ==
    /\ onscrollend = TRUE
    /\ \E c \in ConfigConfigs: Constructed(c, Size(4, 2), Rect(1, 0, 2, 2))

NextConfig ==
    \/ Start
    \/ Pause
    \/ Destroy
    \/ Tick({Quiet})
    \/ PointerMove(TickPoints, {Quiet})
    \/ DeviceOrientation(TickEvents)
    \/ Frame({Quiet})

SpecConfig == InitConfig /\ [][NextConfig]_vars

\* The config lacks `scenes`, or one of its scenes lacks `effect`.
Invalid == ~config.hasScenes \/ \E i \in 1..Len(config.scenes): ~config.scenes[i].hasEffect

\* C24: a driver whose config has no `scenes`, or a scene without `effect`, does
\* not outlive its constructor, which raises a configuration error: no start()
\* and no tick is what reports the config.
C24_InvalidConfigRefused == Invalid => (lastOp = "new" /\ error)


(***************************************************************************)
(* SpecGyro: the orientation driver.  A budget of 0, 1 or 2 calibration    *)
(* samples, the default maxima of 15 degrees or maxima of 30, one scene;   *)
(* readings of -10 and 10 degrees and null angles arrive while the driver  *)
(* is started and paused, and the throttled frames run.                    *)
(***************************************************************************)
GyroConfigs ==
    {GyroConfig(samples, max, max, <<Scene(FALSE, FALSE, FALSE)>>):
        samples \in 0..2, max \in {0, 30}}

Angles == {<<>>, <<Num(-10)>>, <<Num(10)>>}

GyroEvents == [gamma : Angles, beta : Angles]

InitGyro ==
    /\ onscrollend = TRUE
    /\ \E c \in GyroConfigs: Constructed(c, Size(4, 2), Rect(1, 0, 2, 2))

NextGyro ==
    \/ (phase # "active" /\ Start)
    \/ Pause
    \/ DeviceOrientation(GyroEvents)
    \/ Frame({Quiet})

SpecGyro == InitGyro /\ [][NextGyro]_vars

(***************************************************************************)
(* The claims about the orientation driver, checked under SpecGyro.        *)
(***************************************************************************)
\* The step now being taken is _measure with a reading on both axes.
Reads ==
    /\ lastOp' = "deviceorientation" /\ <<"window", "deviceorientation", FALSE>> \in listeners
    /\ sample'[1].gamma # <<>> /\ sample'[1].beta # <<>>

\* The baseline after a calibrating sample: the reading itself when no sample
\* was averaged in before, else the mean of the reading and the baseline.
Averaged(reading, zero, first) == IF first THEN reading ELSE Div(Add(reading, zero), Num(2))

\* C25: while calibration budget remains, each sample with a reading on both
\* axes decrements the budget by one and updates the baseline of each axis: the
\* first sample sets it to the reading itself, every later one to the mean of
\* the reading and the baseline; with no budget left both stay as they are.
C25_CalibrationAverages ==
    [][Reads =>
          IF calibration.samples > 0
          THEN /\ calibration'.samples = calibration.samples - 1
               /\ calibration'.gammaZero =
                     Averaged(sample'[1].gamma[1], calibration.gammaZero,
                              calibration.samples = config.samples)
               /\ calibration'.betaZero =
                     Averaged(sample'[1].beta[1], calibration.betaZero,
                              calibration.samples = config.samples)
          ELSE calibration' = calibration]_vars

\* The angle's place in the range of 2 * max degrees around the baseline.
Tilt(angle, zero, max) == Div(Add(Sub(angle, zero), Num(max)), Num(2 * max))

\* C26: after a sample with a reading on both axes the live snapshot has
\* x = (gamma - gammaZero + maxGamma) / (2 * maxGamma) and
\* y = (beta - betaZero + maxBeta) / (2 * maxBeta), clamped to [0, 1] and rounded
\* to 4 significant digits, with the baseline as that sample left it; without
\* calibration the baseline is 0.
C26_OrientationProgress ==
    [][Reads =>
          /\ IsProgressOf(progress'.x, Tilt(sample'[1].gamma[1], calibration'.gammaZero,
                                            config.maxGamma))
          /\ IsProgressOf(progress'.y, Tilt(sample'[1].beta[1], calibration'.betaZero,
                                            config.maxBeta))
          /\ config.samples = 0 =>
                (calibration'.gammaZero = Num(0) /\ calibration'.betaZero = Num(0))]_vars

\* Without calibration and with the default maxima of 15 degrees, the sample
\* {gamma: 10, beta: -10} has left the snapshot {x: 0.8333, y: 0.1667}.
C26_Witness ==
    /\ config.samples = 0 /\ config.maxGamma = 15 /\ config.maxBeta = 15
    /\ lastOp = "deviceorientation" /\ measured = 1
    /\ sample = <<[gamma |-> <<Num(10)>>, beta |-> <<Num(-10)>>]>>
    /\ progress.x = Rat(8333, 10000) /\ progress.y = Rat(1667, 10000)

\* C27: a sample whose gamma or beta is null is discarded: the live snapshot,
\* the baselines and the calibration budget stay as they are and no frame is
\* armed.
C27_NullSampleDiscarded ==
    [][(lastOp' = "deviceorientation" /\ (sample'[1].gamma = <<>> \/ sample'[1].beta = <<>>)) =>
          /\ measured' = 0
          /\ progress' = progress
          /\ calibration' = calibration
          /\ frames' = frames /\ nextTick' = nextTick /\ throttled' = throttled]_vars

\* A started driver with its budget of 2 untouched and no frame pending has
\* received {gamma: null, beta: 10}.
C27_Witness ==
    /\ lastOp = "deviceorientation" /\ phase = "active"
    /\ sample = <<[gamma |-> <<>>, beta |-> <<Num(10)>>]>>
    /\ calibration.samples = 2 /\ config.samples = 2
    /\ frames = <<>> /\ measured = 0


C29_OneFramePending ==
    [][/\ Cardinality(DriverFrames') <= 1
       /\ (DriverFrames # {} /\ lastOp' = "pointermove" /\ measured' = 1) => frames' = frames
      ]_vars



(***************************************************************************)
(* SpecLoop: the transition loop under every kind of trigger.  A pointer   *)
(* driver with activation tracking and a transition of 2 frames, throttled *)
(* or not, started once; samples, enter and leave notifications and frames *)
(* interleave freely while the clock runs.                                 *)
(***************************************************************************)
LoopConfigs ==
    {PointerConfig(FALSE, FALSE, TRUE, noThrottle, 2, <<Scene(FALSE, FALSE, FALSE)>>):
        noThrottle \in BOOLEAN}

InitLoop ==
    /\ onscrollend = TRUE
    /\ \E c \in LoopConfigs: Constructed(c, Size(4, 2), Rect(1, 0, 2, 2))

NextLoop ==
    \/ (phase = "idle" /\ Start)
    \/ PointerMove({Point(4, 1)}, {Quiet})
    \/ PointerLeave({Quiet})
    \/ PointerEnter({Quiet})
    \/ Frame({Quiet})
    \/ (startTime # 0 /\ Advance(MaxClock - 2))

SpecLoop == InitLoop /\ [][NextLoop]_vars

\* The step now being taken starts a transition cycle with its step at t = 0:
\* an input event of an unthrottled driver, or the frame of a throttled one.
NewCycle ==
    /\ calls' # <<>>
    /\ \/ config.noThrottle /\ lastOp' \in InputEvents
       \/ ~config.noThrottle /\ lastOp' = "frame" /\ frames[1].kind = "throttle"

\* C30: at most one transition-loop frame is pending, under any interleaving of
\* samples, enter and leave notifications and frames, with throttling and
\* without: a transition cycle cancels the frame of the cycle before it and then
\* requests its own.
C30_OneLoopFrame ==
    [][/\ Cardinality(LoopFrames(frames')) <= 1
       /\ (LoopFrames(frames) # {} /\ NewCycle) =>
             (LoopFrames(frames') = {Len(frames')}
              /\ nextTransitionTick' = HPending(Len(frames')))]_vars

\* Half way from (2, 1) to (4, 1), with the loop frame of that transition
\* pending, a pointerleave has restarted the transition from (3, 1); one loop
\* frame is pending.
C30_Witness ==
    /\ lastOp = "pointerleave" /\ config.noThrottle
    /\ startTime = now
    /\ previousProgress.x = Num(3)
    /\ calls # <<>> /\ calls[1].rawX = Num(3)
    /\ frames = <<LoopFrame(FALSE)>>


(***************************************************************************)
(* More claims about the transition loop, checked under SpecLoop.          *)
(***************************************************************************)
\* The eased fraction of the transition at the end of the step now being taken.
Eased == easing(Min(Num(1), Div(Num(now' - startTime'), Num(config.transitionDuration))))

\* The value the fraction t of the way from `previous` to `live`.
Blend(previous, live, t) == Add(previous, Mul(Sub(live, previous), t))

\* C31: every step of a transition hands the effects, for each of x, y, vx and
\* vy, previous + (live - previous) * easing(min(1, (time - startTime) / duration))
\* with the live snapshot as it is when the step is dispatched, and the active
\* flag of the live snapshot, when it has one, as it is; the effects never get
\* the live snapshot itself.
C31_FramesInterpolate ==
    [][calls' # <<>> =>
          /\ calls'[1].rawX = Blend(previousProgress'.x, progress'.x, Eased)
          /\ calls'[1].rawY = Blend(previousProgress'.y, progress'.y, Eased)
          /\ calls'[1].vx = Blend(previousProgress'.vx, progress'.vx, Eased)
          /\ calls'[1].vy = Blend(previousProgress'.vy, progress'.vy, Eased)
          /\ progress'.active # "absent" => calls'[1].rawActive = progress'.active
      ]_vars

\* Half way through a transition of 2 frames from (2, 1) to (4, 1), after a
\* pointerenter, the frame hands the effect the midpoint (3, 1), half of the
\* live velocity (2, 0), and the live active flag.
C31_Witness ==
    /\ lastOp = "frame" /\ now - startTime = 1
    /\ previousProgress.x = Num(2) /\ progress.x = Num(4) /\ progress.vx = Num(2)
    /\ progress.active = "true"
    /\ Len(calls) = 1
    /\ calls[1].rawX = Num(3) /\ calls[1].vx = Num(1) /\ calls[1].rawActive = "true"


(***************************************************************************)
(* More claims about transitions, checked under SpecTransition.            *)
(***************************************************************************)
\* C32: the transition loop ends by itself: a step of a transition requests the
\* next frame while the time elapsed since the start of the transition is less
\* than the duration, and the first step at which it is not requests none and
\* hands the effects the live x and y.
C32_LoopStops ==
    [][calls' # <<>> =>
          IF now' - startTime' >= config.transitionDuration
          THEN /\ LoopFrames(frames') = {}
               /\ \A j \in 1..Len(calls'):
                     calls'[j].rawX = progress'.x /\ calls'[j].rawY = progress'.y
          ELSE LoopFrames(frames') = {Len(frames')}
      ]_vars

\* Two frames after the sample (4, 1) started a transition of 2 frames from
\* (2, 1), the frame hands the effect (4, 1) and no frame is pending.
C32_Witness ==
    /\ lastOp = "frame" /\ config.transitionDuration = 2 /\ now - startTime = 2
    /\ previousProgress.x = Num(2) /\ progress.x = Num(4)
    /\ Len(calls) = 1 /\ calls[1].rawX = Num(4) /\ calls[1].rawY = Num(1)
    /\ frames = <<>>


(***************************************************************************)
(* More claims about the active flag, checked under SpecTick.              *)
(***************************************************************************)
\* C33: the live snapshot has an active field exactly when activation tracking
\* was enabled at construction, and without it no effect receives an active
\* argument.
C33_ActiveFieldIffTracking ==
    ~IsGyro =>
        /\ (progress.active # "absent") <=> config.allowActiveEvent
        /\ ~config.allowActiveEvent => \A j \in 1..Len(calls): calls[j].active = "absent"

\* The half of C33 about the drivers without activation tracking.
C33_UntrackedHasNoFlag ==
    (~IsGyro /\ ~config.allowActiveEvent) =>
        /\ progress.active = "absent"
        /\ \A j \in 1..Len(calls): calls[j].active = "absent"


(***************************************************************************)
(* More claims about the lifecycle, checked under Spec.                    *)
(***************************************************************************)
\* C34: the zero baselines change only when a sample with a reading on both
\* axes is measured while the budget of calibrating samples is not used up, and
\* each such sample uses up one of the budget; once the configured number of
\* them has been measured (at once when it is 0) the baselines stay as they are
\* through every later sample, pause(), start() and destroy().
C34_BaselinesFreeze ==
    [][/\ calibration.samples = 0 => calibration' = calibration
       /\ calibration' # calibration =>
             /\ Reads
             /\ calibration'.samples = calibration.samples - 1
             /\ calibration.samples <= config.samples
      ]_vars

\* An orientation driver with a budget of one sample, calibrated by the reading
\* (10, -10) to the baselines (5, -5), has been destroyed and started again;
\* the baselines are as they were.
C34_Witness ==
    /\ IsGyro /\ config.samples = 1
    /\ lastOp = "start" /\ prevPhase = "destroyed"
    /\ calibration.samples = 0
    /\ calibration.gammaZero = Num(5) /\ calibration.betaZero = Num(-5)

\* C35: the throttled flag of the driver's frame throttle is set exactly while
\* a frame armed by the throttle is pending, so that after destroy() has
\* cancelled the pending frame a measure made after a later start() arms one.
C35_ThrottledIffPending == throttled <=> (ThrottleFrames # {})


\* C40: the public tick() called before the first start() or after destroy(),
\* when no effect pipeline is wired, raises an error and invokes no effect, on
\* the pointer driver and on the orientation driver.
C40_TickNeedsPipeline ==
    (lastOp = "tick" /\ prevPhase \in {"idle", "destroyed"}) => (error /\ calls = <<>>)

\* tick() was called on a destroyed pointer driver: it raised an error and no
\* effect ran.
C40_Witness ==
    /\ ~IsGyro /\ lastOp = "tick" /\ prevPhase = "destroyed" /\ phase = "destroyed"
    /\ error /\ calls = <<>>


(***************************************************************************)
(* SpecTeardown: what is left of a pipeline after it is torn down.  A      *)
(* pointer driver, throttled or not, with one centered scene or with two   *)
(* enabled linear scenes, or an orientation driver with two scenes, in a   *)
(* 4x2 viewport with the native scrollend event or with the polyfill; it   *)
(* is started once and destroyed while samples arrive, the window scrolls, *)
(* frames and timers run, and any effect may call destroy().               *)
(***************************************************************************)
TeardownScenes ==
    {<<Scene(FALSE, TRUE, FALSE)>>,
     <<Scene(FALSE, FALSE, TRUE), Scene(FALSE, FALSE, FALSE)>>}

TeardownConfigs ==
    {PointerConfig(FALSE, FALSE, FALSE, noThrottle, 0, scenes):
        noThrottle \in BOOLEAN, scenes \in TeardownScenes}
    \cup {GyroConfig(0, 0, 0, <<Scene(FALSE, FALSE, TRUE), Scene(FALSE, FALSE, FALSE)>>)}

InitTeardown ==
    /\ onscrollend \in BOOLEAN
    /\ \E c \in TeardownConfigs: Constructed(c, Size(4, 2), Rect(1, 0, 2, 2))

NextTeardown ==
    \/ (phase = "idle" /\ Start)
    \/ Destroy
    \/ Tick(Behaviours(Len(config.scenes)))
    \/ PointerMove(LifePoints, Behaviours(Len(config.scenes)))
    \/ DeviceOrientation(TickEvents)
    \/ Scroll(CenterOffsets)
    \/ Scrollend
    \/ Timeout
    \/ Retry
    \/ Frame(Behaviours(Len(config.scenes)))

SpecTeardown == InitTeardown /\ [][NextTeardown]_vars

(***************************************************************************)
(* The claims about teardown, checked under SpecTeardown.                  *)
(***************************************************************************)
\* C36: from the return of destroy() to the next start() no effect is invoked:
\* not by a frame that was pending when destroy() was called, not by the
\* re-dispatch that follows a settled scroll, and not for the scenes that
\* follow, in a tick, the scene whose effect called destroy().
C36_NoEffectAfterDestroy ==
    \A j \in 1..Len(calls): calls[j].phase # "destroyed"


\* C38: the resize observers and handlers that are registered are those of the
\* pipeline now wired, one for each scene of a pointer driver: after destroy()
\* none is left, and after a re-start none of the pipeline before, with one
\* scene configured and with more than one.
C38_ResizeListenersReleased ==
    resizeRegs = IF Wired /\ ~IsGyro THEN Len(config.scenes) ELSE 0


(***************************************************************************)
(* SpecThrottle: the frame throttle under effects that throw and effects   *)
(* that make the driver measure.  A throttled pointer driver with one or   *)
(* two linear scenes in a 4x2 viewport, started once; samples arrive and   *)
(* frames run in any order.                                                *)
(***************************************************************************)
ThrottleConfigs ==
    {PointerConfig(FALSE, FALSE, FALSE, FALSE, 0, scenes):
        scenes \in {<<Scene(FALSE, FALSE, FALSE)>>,
                    <<Scene(FALSE, FALSE, FALSE), Scene(FALSE, FALSE, FALSE)>>}}

InitThrottle ==
    /\ onscrollend = TRUE
    /\ \E c \in ThrottleConfigs: Constructed(c, Size(4, 2), Rect(1, 0, 2, 2))

NextThrottle ==
    \/ (phase = "idle" /\ Start)
    \/ Pause
    \/ PointerMove(TickPoints, Triggering(Len(config.scenes)))
    \/ Frame(Triggering(Len(config.scenes)))

SpecThrottle == InitThrottle /\ [][NextThrottle]_vars

\* C37: the frame throttle clears its flag before it runs the callback: a
\* measure made from inside the running frame callback arms a new frame, whose
\* handle the driver keeps, and after a frame whose callback threw the flag is
\* clear unless such a measure set it again, so that the next measure arms a
\* frame.
C37_ThrottleReopensFirst ==
    [][/\ lastOp' = "frame" =>
             /\ throttled' <=> (measured' > 0)
             /\ throttled' <=> (ThrottleFrames' # {})
             /\ measured' > 0 => nextTick' = HPending(Len(frames'))
       /\ (lastOp = "frame" /\ thrown # 0 /\ lastOp' = "pointermove" /\ measured' = 1) =>
             (throttled' /\ ThrottleFrames' # {})
      ]_vars

\* The frame's tick called two effects: the first made the driver measure, which
\* armed a new frame, and the second threw.
C37_Witness ==
    /\ lastOp = "frame" /\ measured = 1 /\ thrown = 2
    /\ Len(calls) = 2
    /\ throttled /\ frames = <<ThrottleFrame>> /\ nextTick = HPending(1)


(***************************************************************************)
(* SpecPolyfill: the scrollend polyfill shared by several listeners.  No   *)
(* native scrollend; a pointer driver with one centered scene, started     *)
(* once and destroyed, registers its listener while other callers add and  *)
(* remove listeners of their own, each removed once, in any order; the     *)
(* window scrolls, timers and frames run.                                  *)
(***************************************************************************)
InitPolyfill ==
    /\ onscrollend = FALSE
    /\ \E c \in CenterConfigs: Constructed(c, Size(200, 200), Rect(50, 50, 100, 100))

NextPolyfill ==
    \/ (phase = "idle" /\ Start)
    \/ (phase = "active" /\ Destroy)
    \/ AddListener
    \/ RemoveListener
    \/ Scroll(CenterOffsets)
    \/ Timeout
    \/ Retry
    \/ Frame({Quiet})

SpecPolyfill == InitPolyfill /\ [][NextPolyfill]_vars

\* C39: with the polyfill, however the registrations and the removals
\* interleave, no removal raises an error, the counter is the number of
\* listeners registered and not yet removed, and the touch handlers are
\* installed exactly while the counter is above 0.
C39_PolyfillCounts ==
    /\ ~(lastOp \in {"removeScrollendListener", "destroy"} /\ error)
    /\ polyfill.listeners = Len(polyfill.others) + scrollendRegs
    /\ (polyfill.handlers # {}) <=> (polyfill.listeners > 0)

====
